---- MODULE Spec2Model ----
(***************************************************************************)
(* arli: graph substrate (DynamicGraph, CompactGraph), the label-setting   *)
(* search space and the unidirectional / bidirectional route solvers.      *)
(***************************************************************************)
EXTENDS FiniteSets, Integers, Sequences, TLC

(* ------------------------------ bounds --------------------------------- *)
NumNodes == 3
MaxEdges == 3
MaxWeight == 1
MaxSnapped == 2
MaxLateInits == 1
MaxOverlayNodes == 2
MaxTags == 2

Nodes == 0 .. (NumNodes - 1)
AllPairs == Nodes \X Nodes
Weights == 0 .. MaxWeight
MaxCalls == NumNodes + 2

(* Option<T> *)
None == << >>
Some(x) == << x >>

VARIABLES
  nodes,            \* DynamicGraph.nodes: per node the out_edges / in_edges vectors
  weight,           \* Weighted::transition_weight tabulated over (from, to)
  row_data,         \* the (offsets, out_references) handed to CompactGraph::from_row_data
  compact_graph,    \* the CompactGraph built, or the panic of from_row_data
  overlay_nodes,    \* OverlayGraph.overlay_nodes: id -> OverlayNode
  extended_ids,     \* OverlayGraph.extended_ids: the MoreNodes of the base graph
  issued,           \* the add_origin / add_destination calls made and the ids they returned
  props,            \* an EdgeProperties record, or the panic of an update
  props_log,        \* the record props started from and the calls made on it
  osm_edges,        \* the edges read_edges returned
  osm_graph,        \* the OsmGraph built from them
  reader,           \* the Reader: the uses of the nodes, the ways kept, the edges split
  matched,          \* a waypoint, the points around it and what match_waypoint returned
  geometry_iter,    \* a RefIterator over the points array and what it has yielded
  search_space,     \* the SearchSpace driven directly (search_space.rs tests)
  dir,              \* the Dir type parameter of update
  inits,            \* nodes handed to init so far
  rets,             \* return values of the update calls so far
  popped,           \* number of pq.pop() that returned Some in the last update
  newly,            \* nodes settled by the last update
  lateInits,        \* number of init calls made after an update
  from_ids,         \* route*: ids of from.snapped
  target_ids,       \* route*: ids of to.snapped
  forward_search,   \* route / route_bidir: forward_search
  backward_search,  \* route_bidir: backward_search
  search,           \* route_bidir: the BidirectionalSearch
  pc,               \* position inside route / route_bidir
  result            \* value returned by route / route_bidir

overlayVars == << overlay_nodes, extended_ids, issued >>
osmVars == << props, props_log >>
spatialVars == << osm_edges, osm_graph, geometry_iter, reader, matched >>
graphVars == << nodes, weight, row_data, compact_graph, overlayVars, osmVars, spatialVars >>
searchVars == << search_space, dir, inits, rets, popped, newly, lateInits >>
routeVars == << from_ids, target_ids, forward_search, backward_search, search, pc, result >>
vars == << graphVars, searchVars, routeVars >>

(* --------------------------- DynamicGraph ------------------------------ *)
DefaultNode == [out_edges |-> << >>, in_edges |-> << >>]

new_with_data == [n \in Nodes |-> DefaultNode]

\* add_edge that records the target, not the source, among the ingoing edges
add_edge_RecordsTarget(g, from, to) ==
  LET g1 == [g EXCEPT ![from].out_edges = Append(@, to)]
  IN [g1 EXCEPT ![to].in_edges = Append(@, to)]

add_edge(g, from, to) ==
  LET g1 == [g EXCEPT ![from].out_edges = Append(@, to)]
  IN [g1 EXCEPT ![to].in_edges = Append(@, from)]

RECURSIVE AddEdges(_, _)
AddEdges(g, edges) ==
  IF edges = << >> THEN g
  ELSE AddEdges(add_edge(g, Head(edges)[1], Head(edges)[2]), Tail(edges))

graph_from_data_and_edges(edges) == AddEdges(new_with_data, edges)

Neighbors(g, d, id) ==
  IF d = "Forward" THEN g[id].out_edges ELSE g[id].in_edges

(* --------------------------- CompactGraph ------------------------------ *)
\* RefIterator: the items yielded from index first towards index last (0-based),
\* and whether an index fell outside the vector
RECURSIVE RefIterator(_, _, _)
RefIterator(items, next, last) ==
  IF next = last THEN [out |-> << >>, panicked |-> FALSE]
  ELSE IF next >= Len(items) THEN [out |-> << >>, panicked |-> TRUE]
  ELSE LET rest == RefIterator(items, IF next < last THEN next + 1 ELSE next - 1, last)
       IN [out |-> << items[next + 1] >> \o rest.out, panicked |-> rest.panicked]

\* (to, from) pairs in the order of the derived Ord of tuples
PairLeq(p, q) == p[1] < q[1] \/ (p[1] = q[1] /\ p[2] <= q[2])

RECURSIVE InsertPair(_, _)
InsertPair(sorted, p) ==
  IF sorted = << >> THEN << p >>
  ELSE IF PairLeq(p, Head(sorted)) THEN << p >> \o sorted
  ELSE << Head(sorted) >> \o InsertPair(Tail(sorted), p)

RECURSIVE SortPairs(_)
SortPairs(pairs) ==
  IF pairs = << >> THEN << >> ELSE InsertPair(SortPairs(Tail(pairs)), Head(pairs))

\* step 1 of from_row_data: the (to, from) pairs of the nodes from .. num_nodes - 1
RECURSIVE CollectPairs(_, _, _, _)
CollectPairs(offs, edge_references, from, num_nodes) ==
  IF from >= num_nodes THEN [out |-> << >>, panicked |-> FALSE]
  ELSE LET it == RefIterator(edge_references, offs[from], offs[from + 1])
           rest == CollectPairs(offs, edge_references, from + 1, num_nodes)
       IN IF it.panicked THEN [out |-> << >>, panicked |-> TRUE]
          ELSE [out |-> [k \in 1 .. Len(it.out) |-> << it.out[k], from >>] \o rest.out,
                panicked |-> rest.panicked]

\* step 3 that forgets nodes[0].in_edges_offset = num_edges
RECURSIVE InOffset_FromZero(_, _, _)
InOffset_FromZero(counts, num_edges, n) ==
  IF n = 0 THEN 0 ELSE counts[n] + InOffset_FromZero(counts, num_edges, n - 1)

\* step 3 of from_row_data: counts of ingoing edges turned into global offsets
RECURSIVE InOffset(_, _, _)
InOffset(counts, num_edges, n) ==
  IF n = 0 THEN num_edges ELSE counts[n] + InOffset(counts, num_edges, n - 1)

\* CompactGraph::from_row_data; nodes are indexed 0 .. num_nodes (the last is the sentinel)
from_row_data(num_nodes, offsets, out_references) ==
  LET num_edges == Len(out_references)
      offs == [n \in 0 .. num_nodes |-> IF n < num_nodes THEN offsets[n + 1] ELSE num_edges]
      tmp == CollectPairs(offs, out_references, 0, num_nodes)
      in_references_tmp == SortPairs(tmp.out)
      counts == [n \in 0 .. num_nodes |->
                   Cardinality({ k \in 1 .. Len(in_references_tmp) :
                                   in_references_tmp[k][1] + 1 = n })]
  IN IF tmp.panicked \/ \E k \in 1 .. Len(in_references_tmp) :
                           in_references_tmp[k][1] + 1 > num_nodes
     THEN [panicked |-> TRUE, nodes |-> << >>, edge_references |-> << >>]
     ELSE [panicked |-> FALSE,
           nodes |-> [n \in 0 .. num_nodes |->
                        [out_edges_offset |-> offs[n],
                         in_edges_offset |-> InOffset(counts, num_edges, n)]],
           edge_references |->
             out_references \o
               [k \in 1 .. Len(in_references_tmp) |-> in_references_tmp[k][2]]]

\* IntoNeighbors<Dir> for &CompactGraph
CompactNeighbors(cg, d, node_id) ==
  IF d = "Forward"
  THEN RefIterator(cg.edge_references, cg.nodes[node_id].out_edges_offset,
                   cg.nodes[node_id + 1].out_edges_offset)
  ELSE RefIterator(cg.edge_references, cg.nodes[node_id].in_edges_offset,
                   cg.nodes[node_id + 1].in_edges_offset)

\* no OSM edges were read and no geometry is being iterated
SpatialIdle ==
  /\ osm_edges = None
  /\ osm_graph = None
  /\ geometry_iter = None
  /\ reader = None
  /\ matched = None

\* no EdgeProperties is being built
OsmIdle ==
  /\ props = None
  /\ props_log = None

\* no OverlayGraph has been created
OverlayIdle ==
  /\ overlay_nodes = << >>
  /\ extended_ids = None
  /\ issued = << >>

CompactIdle ==
  /\ row_data = None
  /\ compact_graph = None

\* row data as a caller can hand it over: one offset per node, any targets
RowData(num_edges) ==
  { [offsets |-> o, out_references |-> t] :
      o \in [1 .. NumNodes -> 0 .. (MaxEdges + 1)],
      t \in [1 .. num_edges -> 0 .. NumNodes] }

(* ----------------------------- inputs ---------------------------------- *)
PairKey(p) == p[1] * NumNodes + p[2]

RECURSIVE SortedEdges(_)
SortedEdges(E) ==
  IF E = {} THEN << >>
  ELSE LET m == CHOOSE p \in E : \A q \in E : PairKey(p) <= PairKey(q)
       IN << m >> \o SortedEdges(E \ {m})

EdgeSets == { E \in SUBSET AllPairs : Cardinality(E) <= MaxEdges }

Rev(p) == << p[2], p[1] >>

\* Cost closures: free on the edges; a pair that is only the reverse of an edge
\* costs what the edge costs, every other pair costs Default (0).
WeightFns(E) ==
  { [p \in AllPairs |-> IF p \in E THEN f[p]
                         ELSE IF Rev(p) \in E THEN f[Rev(p)] ELSE 0] :
      f \in [E -> Weights] }

(* ----------------------------- SearchSpace ----------------------------- *)
State(cost, id) == [cost |-> cost, id |-> id]
Label(cost, parent, settled) == [cost |-> cost, parent |-> parent, settled |-> settled]

new == [pq |-> << >>, labels |-> << >>, panicked |-> FALSE]

InsertAt(s, i, e) == SubSeq(s, 1, i - 1) \o << e >> \o SubSeq(s, i, Len(s))

\* a heap whose Ord is not reversed: the most expensive entry is on top
Push_MaxFirst(pq, st) ==
  { InsertAt(pq, i, st) :
      i \in { j \in 1 .. Len(pq) + 1 :
                /\ \A k \in 1 .. j - 1 : pq[k].cost >= st.cost
                /\ \A k \in j .. Len(pq) : pq[k].cost <= st.cost } }

\* a heap whose Ord ignores the cost: the newest entry is always on top
Push_IgnoresCost(pq, st) == { << st >> \o pq }

\* BinaryHeap::push under Ord for State: the heap keeps the cheapest entry on
\* top; where a new entry lands among entries of equal cost is not specified.
Push(pq, st) ==
  { InsertAt(pq, i, st) :
      i \in { j \in 1 .. Len(pq) + 1 :
                /\ \A k \in 1 .. j - 1 : pq[k].cost <= st.cost
                /\ \A k \in j .. Len(pq) : pq[k].cost >= st.cost } }

min(ss) == IF ss.pq = << >> THEN None ELSE Some(<< Head(ss.pq).id, Head(ss.pq).cost >>)

\* relax that lowers a label without pushing an entry for it
Relax_NoPushOnDecrease(ss, node, new_parent, new_cost) ==
  IF ss.panicked THEN { ss }
  ELSE IF node \in DOMAIN ss.labels
  THEN IF new_cost < ss.labels[node].cost
       THEN IF ss.labels[node].settled
            THEN { [ss EXCEPT !.panicked = TRUE] }
            ELSE { [ss EXCEPT !.labels[node] = Label(new_cost, new_parent, FALSE)] }
       ELSE { ss }
  ELSE { [ss EXCEPT !.pq = q,
                    !.labels = ss.labels @@ (node :> Label(new_cost, new_parent, FALSE))] :
           q \in Push(ss.pq, State(new_cost, node)) }

\* relax that also takes an equal cost for an improvement
Relax_OnEqualCost(ss, node, new_parent, new_cost) ==
  IF ss.panicked THEN { ss }
  ELSE IF node \in DOMAIN ss.labels
  THEN IF new_cost <= ss.labels[node].cost
       THEN IF ss.labels[node].settled
            THEN { [ss EXCEPT !.panicked = TRUE] }
            ELSE { [ss EXCEPT !.pq = q,
                              !.labels[node] = Label(new_cost, new_parent, FALSE)] :
                     q \in Push(ss.pq, State(new_cost, node)) }
       ELSE { ss }
  ELSE { [ss EXCEPT !.pq = q,
                    !.labels = ss.labels @@ (node :> Label(new_cost, new_parent, FALSE))] :
           q \in Push(ss.pq, State(new_cost, node)) }

Relax(ss, node, new_parent, new_cost) ==
  IF ss.panicked THEN { ss }
  ELSE IF node \in DOMAIN ss.labels
  THEN IF new_cost < ss.labels[node].cost
       THEN IF ss.labels[node].settled
            THEN { [ss EXCEPT !.panicked = TRUE] }
            ELSE { [ss EXCEPT !.pq = q,
                              !.labels[node] = Label(new_cost, new_parent, FALSE)] :
                     q \in Push(ss.pq, State(new_cost, node)) }
       ELSE { ss }
  ELSE { [ss EXCEPT !.pq = q,
                    !.labels = ss.labels @@ (node :> Label(new_cost, new_parent, FALSE))] :
           q \in Push(ss.pq, State(new_cost, node)) }

init(ss, node) == Relax(ss, node, node, 0)

init_with_cost(ss, node, cost) == Relax(ss, node, node, cost)

\* settle that does not look at the settled flag
CanSettle_IgnoresFlag(ss, node) == node \in DOMAIN ss.labels

CanSettle(ss, node) == node \in DOMAIN ss.labels /\ ~ss.labels[node].settled

Settle(ss, node) == [ss EXCEPT !.labels[node].settled = TRUE]

is_settled(ss, node) ==
  IF node \in DOMAIN ss.labels /\ ss.labels[node].settled
  THEN Some(ss.labels[node].cost) ELSE None

RECURSIVE RelaxAll(_, _, _, _, _)
RelaxAll(ss, w, id, cost, targets) ==
  IF targets = << >> THEN { ss }
  ELSE UNION { RelaxAll(s, w, id, cost, Tail(targets)) :
                 s \in Relax(ss, Head(targets), id, cost + w[<< id, Head(targets) >>]) }

\* update that reports true as soon as anything was popped
RECURSIVE UpdateFrom_TrueWhenPopped(_, _, _, _, _)
UpdateFrom_TrueWhenPopped(ss, g, w, d, npop) ==
  IF ss.pq = << >>
  THEN { [ss |-> ss, ret |-> npop > 0, popped |-> npop, entry |-> None] }
  ELSE LET st == Head(ss.pq)
           ss1 == [ss EXCEPT !.pq = Tail(ss.pq)]
       IN IF ~CanSettle(ss1, st.id)
          THEN UpdateFrom_TrueWhenPopped(ss1, g, w, d, npop + 1)
          ELSE { [ss |-> s, ret |-> TRUE, popped |-> npop + 1, entry |-> Some(st)] :
                   s \in RelaxAll(Settle(ss1, st.id), w, st.id, st.cost,
                                  Neighbors(g, d, st.id)) }

\* update: the set of outcomes of one call: the search space, the value
\* returned, the number of entries popped and the entry that was settled
RECURSIVE UpdateFrom(_, _, _, _, _)
UpdateFrom(ss, g, w, d, npop) ==
  IF ss.pq = << >>
  THEN { [ss |-> ss, ret |-> FALSE, popped |-> npop, entry |-> None] }
  ELSE LET st == Head(ss.pq)
           ss1 == [ss EXCEPT !.pq = Tail(ss.pq)]
       IN IF ~CanSettle(ss1, st.id)
          THEN UpdateFrom(ss1, g, w, d, npop + 1)
          ELSE { [ss |-> s, ret |-> TRUE, popped |-> npop + 1, entry |-> Some(st)] :
                   s \in RelaxAll(Settle(ss1, st.id), w, st.id, st.cost,
                                  Neighbors(g, d, st.id)) }

update(ss, g, w, d) == UpdateFrom(ss, g, w, d, 0)

\* unwind that does not stop at a node that is its own parent
RECURSIVE Unwind_PastInitNode(_, _, _)
Unwind_PastInitNode(ss, current_node, fuel) ==
  IF current_node \notin DOMAIN ss.labels \/ fuel = 0 THEN << >>
  ELSE << current_node >> \o Unwind_PastInitNode(ss, ss.labels[current_node].parent, fuel - 1)

\* the loop of unwind; fuel bounds the number of turns
RECURSIVE Unwind(_, _, _)
Unwind(ss, current_node, fuel) ==
  IF current_node \notin DOMAIN ss.labels \/ fuel = 0 THEN << >>
  ELSE IF ss.labels[current_node].parent = current_node THEN << current_node >>
  ELSE << current_node >> \o Unwind(ss, ss.labels[current_node].parent, fuel - 1)

SettledNodes(ss) == { v \in DOMAIN ss.labels : ss.labels[v].settled }

(* ------------------- driving a search space directly ------------------- *)
\* the variables of the route solvers while no route is computed
RouteIdle ==
  /\ from_ids = {}
  /\ target_ids = {}
  /\ forward_search = new
  /\ backward_search = new
  /\ search = [min_cost |-> None, metting_node |-> None]
  /\ pc = "idle"
  /\ result = None

SearchInit ==
  /\ RouteIdle
  /\ \E E \in EdgeSets :
       /\ nodes = graph_from_data_and_edges(SortedEdges(E))
       /\ weight \in WeightFns(E)
  /\ CompactIdle
  /\ OverlayIdle
  /\ OsmIdle
  /\ SpatialIdle
  /\ dir \in {"Forward", "Backward"}
  /\ search_space = new
  /\ inits = {}
  /\ rets = << >>
  /\ popped = 0
  /\ newly = {}
  /\ lateInits = 0

CallInit(node) ==
  /\ ~search_space.panicked
  /\ search_space' \in init(search_space, node)
  /\ inits' = inits \cup {node}
  /\ rets # << >> => lateInits < MaxLateInits
  /\ lateInits' = IF rets # << >> THEN lateInits + 1 ELSE lateInits
  /\ UNCHANGED << graphVars, dir, rets, popped, newly, routeVars >>

CallUpdate ==
  /\ ~search_space.panicked
  /\ Len(rets) < MaxCalls
  /\ \E o \in update(search_space, nodes, weight, dir) :
       /\ search_space' = o.ss
       \* a failed assertion aborts the call: it returns nothing
       /\ rets' = IF o.ss.panicked THEN rets ELSE Append(rets, o.ret)
       /\ popped' = o.popped
       /\ newly' = SettledNodes(o.ss) \ SettledNodes(search_space)
  /\ UNCHANGED << graphVars, dir, inits, lateInits, routeVars >>

SearchNext == (\E node \in Nodes : CallInit(node)) \/ CallUpdate

SpecSearch == SearchInit /\ [][SearchNext]_vars

\* init_with_cost(node, cost) with a cost above Default
CallInitWithCost(node, cost) ==
  /\ ~search_space.panicked
  /\ search_space' \in init_with_cost(search_space, node, cost)
  /\ inits' = inits \cup {node}
  /\ rets # << >> => lateInits < MaxLateInits
  /\ lateInits' = IF rets # << >> THEN lateInits + 1 ELSE lateInits
  /\ UNCHANGED << graphVars, dir, rets, popped, newly, routeVars >>

SearchCostNext ==
  \/ \E node \in Nodes : CallInit(node)
  \/ \E node \in Nodes, cost \in Weights \ {0} : CallInitWithCost(node, cost)
  \/ CallUpdate

\* a forward search whose origins may carry a cost
SearchCostInit == SearchInit /\ dir = "Forward"

SpecSearchCost == SearchCostInit /\ [][SearchCostNext]_vars

(* ------------------------------ route ---------------------------------- *)
RECURSIVE Reverse(_)
Reverse(seq) == IF seq = << >> THEN << >> ELSE Reverse(Tail(seq)) \o << Head(seq) >>

unwind(ss, node) == Unwind(ss, node, NumNodes + 1)

Route(cost, ids) == [cost |-> cost, ids |-> ids]

\* for SnappedOnEdge(_, id) in &snapped { search.init(*id) }
RECURSIVE InitAll(_, _)
InitAll(ss, ids) ==
  IF ids = {} THEN { ss }
  ELSE UNION { UNION { InitAll(s, ids \ {id}) : s \in init(ss, id) } : id \in ids }

\* one turn of the loop of route: [ss, returned, value]
RouteLoop(ss, g, w, targets) ==
  { LET m == min(o.ss)
    IN IF m = None
       THEN [ss |-> o.ss, returned |-> TRUE, value |-> None]
       ELSE IF m[1][1] \in targets
       THEN [ss |-> o.ss, returned |-> TRUE,
             value |-> Some(Route(m[1][2], Reverse(unwind(o.ss, m[1][1]))))]
       ELSE [ss |-> o.ss, returned |-> FALSE, value |-> None] :
    o \in update(ss, g, w, "Forward") }

RECURSIVE RouteRun(_, _, _, _)
RouteRun(ss, g, w, targets) ==
  UNION { IF o.returned THEN { o.value } ELSE RouteRun(o.ss, g, w, targets) :
          o \in RouteLoop(ss, g, w, targets) }

\* every value route can return on an instance
route(g, w, origins, destinations) ==
  UNION { RouteRun(ss, g, w, destinations) : ss \in InitAll(new, origins) }

(* --------------------------- route_bidir ------------------------------- *)
BidirectionalSearch_new == [min_cost |-> None, metting_node |-> None]

when_forward_relaxed(bs, backward, node, cost) ==
  IF backward # None
  THEN IF bs.min_cost = None \/ ~(backward[1] + cost < bs.min_cost[1])
       THEN [min_cost |-> Some(backward[1] + cost), metting_node |-> Some(node)]
       ELSE bs
  ELSE bs

when_bacward_relaxed(bs, forward, node, cost) ==
  IF forward # None
  THEN IF bs.min_cost = None \/ ~(forward[1] + cost < bs.min_cost[1])
       THEN [min_cost |-> Some(forward[1] + cost), metting_node |-> Some(node)]
       ELSE bs
  ELSE bs

route_found(bs, forward, backward) ==
  IF min(forward) # None /\ min(backward) # None
  THEN IF bs.min_cost # None /\ bs.metting_node # None
          /\ min(forward)[1][2] + min(backward)[1][2] >= bs.min_cost[1]
       THEN Some(<< bs.metting_node[1], bs.min_cost[1] >>)
       ELSE None
  ELSE None

OnRelaxed(bs, other, d, node, cost) ==
  IF d = "Forward"
  THEN when_forward_relaxed(bs, is_settled(other, node), node, cost)
  ELSE when_bacward_relaxed(bs, is_settled(other, node), node, cost)

\* update_and_track: update, reporting every relaxed neighbour and its cost
RECURSIVE RelaxAllAndTrack(_, _, _, _, _, _, _, _)
RelaxAllAndTrack(ss, bs, other, w, d, id, cost, targets) ==
  IF targets = << >> THEN { [ss |-> ss, bs |-> bs] }
  ELSE LET target_id == Head(targets)
           c == cost + w[<< id, target_id >>]
       IN UNION { RelaxAllAndTrack(s, IF s.panicked THEN bs
                                      ELSE OnRelaxed(bs, other, d, target_id, c),
                                   other, w, d, id, cost, Tail(targets)) :
                  s \in Relax(ss, target_id, id, c) }

RECURSIVE update_and_track(_, _, _, _, _, _)
update_and_track(ss, bs, other, g, w, d) ==
  IF ss.pq = << >>
  THEN { [ss |-> ss, bs |-> bs] }
  ELSE LET st == Head(ss.pq)
           ss1 == [ss EXCEPT !.pq = Tail(ss.pq)]
       IN IF ~CanSettle(ss1, st.id)
          THEN update_and_track(ss1, bs, other, g, w, d)
          ELSE RelaxAllAndTrack(Settle(ss1, st.id), bs, other, w, d, st.id, st.cost,
                                Neighbors(g, d, st.id))

\* the concatenation without .skip(1)
BidirRoute_NoSkip(forward, backward, found) ==
  Route(found[2], Reverse(unwind(forward, found[1])) \o unwind(backward, found[1]))

\* the Route that route_bidir returns for the pair route_found yields
BidirRoute(forward, backward, found) ==
  Route(found[2], Reverse(Tail(unwind(forward, found[1]))) \o unwind(backward, found[1]))

(* ----------------------- running the route solvers --------------------- *)
SearchIdle ==
  /\ search_space = new
  /\ dir = "Forward"
  /\ inits = {}
  /\ rets = << >>
  /\ popped = 0
  /\ newly = {}
  /\ lateInits = 0

SnappedSets == { S \in SUBSET Nodes : S # {} /\ Cardinality(S) <= MaxSnapped }

RouteInit ==
  /\ SearchIdle
  /\ \E E \in EdgeSets :
       /\ nodes = graph_from_data_and_edges(SortedEdges(E))
       /\ weight \in WeightFns(E)
  /\ CompactIdle
  /\ OverlayIdle
  /\ OsmIdle
  /\ SpatialIdle
  /\ from_ids \in SnappedSets
  /\ target_ids \in SnappedSets
  /\ forward_search = new
  /\ backward_search = new
  /\ search = BidirectionalSearch_new
  /\ pc = "idle"
  /\ result = None

\* route: the search space is created and initialised at the origins
RouteCall ==
  /\ pc = "idle"
  /\ forward_search' \in InitAll(new, from_ids)
  /\ pc' = "route"
  /\ UNCHANGED << graphVars, searchVars, from_ids, target_ids, backward_search, search, result >>

\* route: one turn of the loop
RouteTurn ==
  /\ pc = "route"
  /\ \E o \in RouteLoop(forward_search, nodes, weight, target_ids) :
       /\ forward_search' = o.ss
       /\ pc' = IF o.returned THEN "done" ELSE "route"
       /\ result' = o.value
  /\ UNCHANGED << graphVars, searchVars, from_ids, target_ids, backward_search, search >>

RouteNext == RouteCall \/ RouteTurn

SpecRoute == RouteInit /\ [][RouteNext]_vars

\* route_bidir: both search spaces are created and initialised
BidirCall ==
  /\ pc = "idle"
  /\ forward_search' \in InitAll(new, from_ids)
  /\ backward_search' \in InitAll(new, target_ids)
  /\ search' = BidirectionalSearch_new
  /\ pc' = "route_found"
  /\ UNCHANGED << graphVars, searchVars, from_ids, target_ids, result >>

\* route_bidir: the test at the head of the loop
BidirRouteFound ==
  /\ pc = "route_found"
  /\ LET found == route_found(search, forward_search, backward_search)
     IN IF found # None
        THEN /\ pc' = "done"
             /\ result' = Some(BidirRoute(forward_search, backward_search, found[1]))
        ELSE /\ pc' = "forward"
             /\ result' = result
  /\ UNCHANGED << graphVars, searchVars, from_ids, target_ids, forward_search, backward_search, search >>

BidirForward ==
  /\ pc = "forward"
  /\ \E o \in update_and_track(forward_search, search, backward_search,
                               nodes, weight, "Forward") :
       /\ forward_search' = o.ss
       /\ search' = o.bs
  /\ pc' = "backward"
  /\ UNCHANGED << graphVars, searchVars, from_ids, target_ids, backward_search, result >>

BidirBackward ==
  /\ pc = "backward"
  /\ \E o \in update_and_track(backward_search, search, forward_search,
                               nodes, weight, "Backward") :
       /\ backward_search' = o.ss
       /\ search' = o.bs
  /\ pc' = "route_found"
  /\ UNCHANGED << graphVars, searchVars, from_ids, target_ids, forward_search, result >>

BidirNext == BidirCall \/ BidirRouteFound \/ BidirForward \/ BidirBackward

SpecBidir == RouteInit /\ [][BidirNext]_vars

\* the loop of route_bidir keeps running while the function has not returned
FairSpecBidir == SpecBidir /\ WF_vars(BidirNext)

(* --------------------------- EdgeProperties ---------------------------- *)
UNKNOWN == 0 - 1
FOOT_FORBIDDEN == 0
FOOT_ALLOWED == 1
CAR_FORBIDDEN == 0
CAR_RESIDENTIAL == 1
CAR_TERTIARY == 2
CAR_SECONDARY == 3
CAR_PRIMARY == 4
CAR_TRUNK == 5
CAR_MOTORWAY == 6
BIKE_FORBIDDEN == 0
BIKE_ALLOWED == 2
BIKE_LANE == 3
BIKE_BUSWAY == 4
BIKE_TRACK == 5
U8Max == 255

\* EdgeProperties::default
EdgeProperties_default ==
  [foot |-> UNKNOWN, car_forward |-> UNKNOWN, car_backward |-> UNKNOWN,
   bike_forward |-> UNKNOWN, bike_backward |-> UNKNOWN, speed_limit_km_h |-> 50,
   panicked |-> FALSE]

\* normalize that fills the backward fields after the forward ones were forbidden
normalize_ForwardFirst(p) ==
  LET p1 == IF p.car_forward = UNKNOWN THEN [p EXCEPT !.car_forward = CAR_FORBIDDEN] ELSE p
      p2 == IF p1.bike_forward = UNKNOWN THEN [p1 EXCEPT !.bike_forward = BIKE_FORBIDDEN] ELSE p1
      p3 == IF p2.car_backward = UNKNOWN THEN [p2 EXCEPT !.car_backward = p.car_forward] ELSE p2
      p4 == IF p3.bike_backward = UNKNOWN THEN [p3 EXCEPT !.bike_backward = p.bike_forward] ELSE p3
  IN IF p4.foot = UNKNOWN THEN [p4 EXCEPT !.foot = FOOT_FORBIDDEN] ELSE p4

\* a normalize that opens an unknown reverse direction to cars
normalize_BackwardOpen(p) ==
  LET p1 == IF p.car_backward = UNKNOWN THEN [p EXCEPT !.car_backward = CAR_RESIDENTIAL] ELSE p
      p2 == IF p1.bike_backward = UNKNOWN THEN [p1 EXCEPT !.bike_backward = p1.bike_forward] ELSE p1
      p3 == IF p2.car_forward = UNKNOWN THEN [p2 EXCEPT !.car_forward = CAR_FORBIDDEN] ELSE p2
      p4 == IF p3.bike_forward = UNKNOWN THEN [p3 EXCEPT !.bike_forward = BIKE_FORBIDDEN] ELSE p3
      p5 == IF p4.bike_backward = UNKNOWN THEN [p4 EXCEPT !.bike_backward = BIKE_FORBIDDEN] ELSE p4
  IN IF p5.foot = UNKNOWN THEN [p5 EXCEPT !.foot = FOOT_FORBIDDEN] ELSE p5

\* EdgeProperties::normalize, one if after the other
normalize(p) ==
  LET p1 == IF p.car_backward = UNKNOWN THEN [p EXCEPT !.car_backward = p.car_forward] ELSE p
      p2 == IF p1.bike_backward = UNKNOWN THEN [p1 EXCEPT !.bike_backward = p1.bike_forward] ELSE p1
      p3 == IF p2.car_forward = UNKNOWN THEN [p2 EXCEPT !.car_forward = CAR_FORBIDDEN] ELSE p2
      p4 == IF p3.bike_forward = UNKNOWN THEN [p3 EXCEPT !.bike_forward = BIKE_FORBIDDEN] ELSE p3
      p5 == IF p4.car_backward = UNKNOWN THEN [p4 EXCEPT !.car_backward = CAR_FORBIDDEN] ELSE p4
      p6 == IF p5.bike_backward = UNKNOWN THEN [p5 EXCEPT !.bike_backward = BIKE_FORBIDDEN] ELSE p5
  IN IF p6.foot = UNKNOWN THEN [p6 EXCEPT !.foot = FOOT_FORBIDDEN] ELSE p6

\* tag values as the characters the regular expression sees
Chars ==
  [v \in { "40", "50 mph", "none", "300", "200mph", "30 km/h", "" } |->
     CASE v = "40" -> << "4", "0" >>
       [] v = "50 mph" -> << "5", "0", " ", "m", "p", "h" >>
       [] v = "none" -> << "n", "o", "n", "e" >>
       [] v = "300" -> << "3", "0", "0" >>
       [] v = "200mph" -> << "2", "0", "0", "m", "p", "h" >>
       [] v = "30 km/h" -> << "3", "0", " ", "k", "m", "/", "h" >>
       [] OTHER -> << >>]

Digits == { "0", "1", "2", "3", "4", "5", "6", "7", "8", "9" }
DigitValue(c) ==
  CASE c = "0" -> 0 [] c = "1" -> 1 [] c = "2" -> 2 [] c = "3" -> 3 [] c = "4" -> 4
    [] c = "5" -> 5 [] c = "6" -> 6 [] c = "7" -> 7 [] c = "8" -> 8 [] OTHER -> 9

\* the longest prefix of cs made of characters of S
RECURSIVE PrefixIn(_, _)
PrefixIn(cs, S) ==
  IF cs = << >> \/ Head(cs) \notin S THEN << >>
  ELSE << Head(cs) >> \o PrefixIn(Tail(cs), S)

RECURSIVE Decimal(_, _)
Decimal(ds, acc) ==
  IF ds = << >> THEN acc ELSE Decimal(Tail(ds), 10 * acc + DigitValue(Head(ds)))

\* (value as f32 * 1.6) as u8: the product cut to its integer part, at most 255
MphToKmh(value) ==
  LET x == (value * 16) \div 10 IN IF x > U8Max THEN U8Max ELSE x

\* EdgeProperties::parse_max_speed: ^(?P<value>\d+)\s*(?P<unit>.*)$, then
\* parse::<u8>().unwrap() on the digits
parse_max_speed(val) ==
  LET cs == Chars[val]
      value == PrefixIn(cs, Digits)
      rest == SubSeq(cs, Len(value) + 1, Len(cs))
      spaces == PrefixIn(rest, { " " })
      unit == SubSeq(rest, Len(spaces) + 1, Len(rest))
  IN IF value = << >> THEN [panicked |-> FALSE, value |-> None]
     ELSE IF Decimal(value, 0) > U8Max THEN [panicked |-> TRUE, value |-> None]
     ELSE IF unit = << "m", "p", "h" >>
     THEN [panicked |-> FALSE, value |-> Some(MphToKmh(Decimal(value, 0)))]
     ELSE [panicked |-> FALSE, value |-> Some(Decimal(value, 0))]

\* one-way tags that forbid bicycles against the direction whatever was set
OneWay_Overwrites(p) ==
  [p EXCEPT !.car_backward = CAR_FORBIDDEN, !.bike_backward = BIKE_FORBIDDEN]

\* the assignments update makes under "oneway" = yes and "junction" = roundabout
OneWay(p) ==
  LET q == [p EXCEPT !.car_backward = CAR_FORBIDDEN]
  IN IF q.bike_backward = UNKNOWN THEN [q EXCEPT !.bike_backward = BIKE_FORBIDDEN] ELSE q

\* EdgeProperties::update
EdgeProperties_update(p, key, val) ==
  CASE key = "highway" ->
         ( CASE val \in { "cycleway", "path", "footway", "steps", "pedestrian" } ->
                  [p EXCEPT !.bike_forward = BIKE_TRACK, !.foot = FOOT_ALLOWED]
             [] val \in { "primary", "primary_link" } ->
                  [p EXCEPT !.car_forward = CAR_PRIMARY, !.foot = FOOT_ALLOWED,
                            !.bike_forward = BIKE_ALLOWED]
             [] val \in { "secondary" } ->
                  [p EXCEPT !.car_forward = CAR_SECONDARY, !.foot = FOOT_ALLOWED,
                            !.bike_forward = BIKE_ALLOWED]
             [] val \in { "tertiary" } ->
                  [p EXCEPT !.car_forward = CAR_TERTIARY, !.foot = FOOT_ALLOWED,
                            !.bike_forward = BIKE_ALLOWED]
             [] val \in { "unclassified", "residential", "living_street", "road",
                          "service", "track" } ->
                  [p EXCEPT !.car_forward = CAR_RESIDENTIAL, !.foot = FOOT_ALLOWED,
                            !.bike_forward = BIKE_ALLOWED]
             [] val \in { "motorway", "motorway_link" } ->
                  [p EXCEPT !.car_forward = CAR_MOTORWAY, !.foot = FOOT_FORBIDDEN,
                            !.bike_forward = BIKE_FORBIDDEN]
             [] val \in { "trunk", "trunk_link" } ->
                  [p EXCEPT !.car_forward = CAR_TRUNK, !.foot = FOOT_FORBIDDEN,
                            !.bike_forward = BIKE_FORBIDDEN]
             [] OTHER -> p )
    [] key \in { "pedestrian", "foot" } ->
         IF val = "no" THEN [p EXCEPT !.foot = FOOT_FORBIDDEN]
         ELSE [p EXCEPT !.foot = FOOT_ALLOWED]
    [] key = "cycleway" ->
         ( CASE val = "track" -> [p EXCEPT !.bike_forward = BIKE_TRACK]
             [] val = "opposite_track" -> [p EXCEPT !.bike_backward = BIKE_TRACK]
             [] val = "opposite" -> [p EXCEPT !.bike_backward = BIKE_ALLOWED]
             [] val = "share_busway" -> [p EXCEPT !.bike_forward = BIKE_BUSWAY]
             [] val \in { "lane_left", "opposite_lane" } -> [p EXCEPT !.bike_backward = BIKE_LANE]
             [] OTHER -> [p EXCEPT !.bike_forward = BIKE_LANE] )
    [] key = "bicycle" ->
         IF val \in { "no", "false" } THEN [p EXCEPT !.bike_forward = BIKE_FORBIDDEN]
         ELSE [p EXCEPT !.bike_forward = BIKE_ALLOWED]
    [] key = "busway" ->
         IF val \in { "opposite_lane", "opposite_track" }
         THEN [p EXCEPT !.bike_backward = BIKE_BUSWAY]
         ELSE [p EXCEPT !.bike_forward = BIKE_BUSWAY]
    [] key = "oneway" ->
         IF val \in { "yes", "true", "1" } THEN OneWay(p) ELSE p
    [] key = "junction" ->
         IF val = "roundabout" THEN OneWay(p) ELSE p
    [] key = "maxspeed" ->
         LET speed == parse_max_speed(val)
         IN IF speed.panicked THEN [p EXCEPT !.panicked = TRUE]
            ELSE IF speed.value = None THEN p
            ELSE [p EXCEPT !.speed_limit_km_h = speed.value[1]]
    [] OTHER -> p

\* the tags a way is given: one pair for every arm of update
Tags ==
  { << "highway", v >> : v \in { "cycleway", "primary", "secondary", "tertiary",
                                 "residential", "motorway", "trunk", "construction" } }
  \cup { << "foot", "no" >>, << "foot", "designated" >>, << "pedestrian", "no" >> }
  \cup { << "cycleway", v >> : v \in { "track", "opposite_track", "opposite",
                                       "share_busway", "opposite_lane", "lane" } }
  \cup { << "bicycle", "no" >>, << "bicycle", "yes" >> }
  \cup { << "busway", "opposite_track" >>, << "busway", "yes" >> }
  \cup { << "oneway", "yes" >>, << "oneway", "no" >> }
  \cup { << "junction", "roundabout" >>, << "junction", "circular" >> }
  \cup { << "maxspeed", v >> : v \in DOMAIN Chars }
  \cup { << "name", "none" >> }

\* the values the access fields are given directly
Levels == UNKNOWN .. CAR_MOTORWAY

\* a fresh record, or one whose public access fields were assigned directly
PropsInit ==
  /\ nodes = new_with_data
  /\ weight = [p \in AllPairs |-> 0]
  /\ CompactIdle
  /\ OverlayIdle
  /\ SpatialIdle
  /\ SearchIdle
  /\ RouteIdle
  /\ \E f \in Levels, cf \in Levels, cb \in Levels, bf \in Levels, bb \in Levels :
       props = [EdgeProperties_default EXCEPT !.foot = f, !.car_forward = cf,
                  !.car_backward = cb, !.bike_forward = bf, !.bike_backward = bb]
  /\ props_log = [applied |-> << >>, exact |-> props = EdgeProperties_default,
                  normalized |-> FALSE,
                  from_default |-> props = EdgeProperties_default]

\* p.update(key, val); applied keeps the first MaxTags tags given to a fresh
\* record, exact says that applied is all that was done to it, from_default
\* that the record was a default one and no update followed a normalize
Update(key, val) ==
  /\ props # None
  /\ ~props.panicked
  /\ props' = EdgeProperties_update(props, key, val)
  /\ props_log' =
       IF props_log.exact /\ ~props_log.normalized /\ Len(props_log.applied) < MaxTags
       THEN [props_log EXCEPT !.applied = Append(@, << key, val >>)]
       ELSE [applied |-> << >>, exact |-> FALSE, normalized |-> FALSE,
             from_default |-> props_log.from_default /\ ~props_log.normalized]
  /\ UNCHANGED << nodes, weight, row_data, compact_graph, overlayVars, spatialVars, searchVars, routeVars >>

\* p.normalize()
Normalize ==
  /\ props # None
  /\ ~props.panicked
  /\ props' = normalize(props)
  /\ props_log' = [props_log EXCEPT !.normalized = TRUE]
  /\ UNCHANGED << nodes, weight, row_data, compact_graph, overlayVars, spatialVars, searchVars, routeVars >>

PropsNext ==
  \/ \E t \in Tags : Update(t[1], t[2])
  \/ Normalize

SpecProps == PropsInit /\ [][PropsNext]_vars

\* for (key, val) in tags { properties.update(key, val) }
RECURSIVE ApplyTags(_, _)
ApplyTags(p, ts) ==
  IF ts = << >> \/ p.panicked THEN p
  ELSE ApplyTags(EdgeProperties_update(p, ts[1][1], ts[1][2]), Tail(ts))


(* ------------------------------- Reader -------------------------------- *)
MaxWays == 2
MaxWayNodes == 3
MaxOsmNode == 2
OsmNodeIds == 0 .. MaxOsmNode

\* EdgeProperties::accessible
accessible(p) ==
  \/ p.bike_forward # BIKE_FORBIDDEN
  \/ p.bike_backward # BIKE_FORBIDDEN
  \/ p.car_forward # CAR_FORBIDDEN
  \/ p.car_backward # CAR_FORBIDDEN
  \/ p.foot # FOOT_FORBIDDEN

\* the tags of the ways in the file: none, a name only, a two-way street, a
\* one-way street, a footway
WayTags ==
  { << >>,
    << << "name", "none" >> >>,
    << << "highway", "residential" >> >>,
    << << "highway", "residential" >>, << "oneway", "yes" >> >>,
    << << "highway", "footway" >> >> }

\* the node lists of the ways in the file
WayNodes == UNION { [1 .. n -> OsmNodeIds] : n \in 0 .. MaxWayNodes }

\* the coordinate read_nodes stores for a node
NodeCoord(node_id) == 100 + node_id

Reader_new == [nodes |-> [n \in OsmNodeIds |-> 0], ways |-> << >>, edges |-> None,
               decoded |-> 0, panicked |-> FALSE]

\* self.nodes.entry(*node).or_insert(Node::default()).uses += 1 for every node of the way
RECURSIVE CountUses(_, _)
CountUses(uses, way_nodes) ==
  IF way_nodes = << >> THEN uses
  ELSE CountUses([uses EXCEPT ![Head(way_nodes)] = @ + 1], Tail(way_nodes))

\* the body of the loop of read_ways for one way of the file
read_way(r, way_nodes, tags) ==
  LET properties == normalize(ApplyTags(EdgeProperties_default, tags))
  IN IF accessible(properties)
     THEN [r EXCEPT !.nodes = CountUses(@, way_nodes),
                    !.ways = Append(@, [id |-> r.decoded + 1, nodes |-> way_nodes,
                                        properties |-> properties]),
                    !.decoded = @ + 1]
     ELSE [r EXCEPT !.decoded = @ + 1]

\* split_way that closes an edge at every node
RECURSIVE split_way_AtEveryNode(_, _, _, _)
split_way_AtEveryNode(r, way, i, st) ==
  IF i >= Len(way.nodes) THEN st
  ELSE LET node_id == way.nodes[i + 1]
       IN IF i = 0
          THEN split_way_AtEveryNode(r, way, i + 1,
                 [st EXCEPT !.source = node_id, !.points = Append(@, NodeCoord(node_id))])
          ELSE split_way_AtEveryNode(r, way, i + 1,
                 [st EXCEPT
                    !.result = Append(@, [id |-> way.id, source |-> st.source,
                                          target |-> node_id,
                                          geometry |-> Append(st.points, NodeCoord(node_id)),
                                          num_coords |-> Len(st.points) + 1,
                                          properties |-> way.properties]),
                    !.source = node_id,
                    !.points = << NodeCoord(node_id) >>])

\* the loop of split_way from index i on; self.nodes[&node_id] panics for a
\* node that has no entry
RECURSIVE split_way(_, _, _, _)
split_way(r, way, i, st) ==
  IF i >= Len(way.nodes) \/ st.panicked THEN st
  ELSE LET node_id == way.nodes[i + 1]
       IN IF r.nodes[node_id] = 0 THEN [st EXCEPT !.panicked = TRUE]
          ELSE IF i = 0
          THEN split_way(r, way, i + 1,
                 [st EXCEPT !.source = node_id, !.points = Append(@, NodeCoord(node_id))])
          ELSE IF r.nodes[node_id] > 1 \/ i = Len(way.nodes) - 1
          THEN split_way(r, way, i + 1,
                 [st EXCEPT
                    !.result = Append(@, [id |-> way.id, source |-> st.source,
                                          target |-> node_id,
                                          geometry |-> Append(st.points, NodeCoord(node_id)),
                                          num_coords |-> Len(st.points) + 1,
                                          properties |-> way.properties]),
                    !.source = node_id,
                    !.points = << NodeCoord(node_id) >>])
          ELSE split_way(r, way, i + 1,
                 [st EXCEPT !.points = Append(@, NodeCoord(node_id))])

\* self.split_way(way)
SplitWay(r, way) ==
  split_way(r, way, 0, [result |-> << >>, source |-> 0, points |-> << >>, panicked |-> FALSE])

\* Reader::edges: the edges of the ways from the k-th on, in the order of the ways
RECURSIVE Reader_edges(_, _)
Reader_edges(r, k) ==
  IF k > Len(r.ways) THEN [result |-> << >>, panicked |-> FALSE]
  ELSE LET first == SplitWay(r, r.ways[k])
           rest == Reader_edges(r, k + 1)
       IN [result |-> first.result \o rest.result,
           panicked |-> first.panicked \/ rest.panicked]

ReaderInit ==
  /\ nodes = new_with_data
  /\ weight = [p \in AllPairs |-> 0]
  /\ CompactIdle
  /\ OverlayIdle
  /\ OsmIdle
  /\ SearchIdle
  /\ RouteIdle
  /\ osm_edges = None
  /\ osm_graph = None
  /\ geometry_iter = None
  /\ matched = None
  /\ reader = Some(Reader_new)

\* read_ways decodes one more way of the file
ReadWay(way_nodes, tags) ==
  /\ reader # None
  /\ reader[1].edges = None
  /\ reader[1].decoded < MaxWays
  /\ reader' = Some(read_way(reader[1], way_nodes, tags))
  /\ UNCHANGED << nodes, weight, row_data, compact_graph, overlayVars, osmVars,
                  osm_edges, osm_graph, geometry_iter, matched, searchVars, routeVars >>

\* read_edges after both passes: r.edges()
ReadEdges ==
  /\ reader # None
  /\ reader[1].edges = None
  /\ LET es == Reader_edges(reader[1], 1)
     IN reader' = Some([reader[1] EXCEPT !.edges = Some(es.result), !.panicked = es.panicked])
  /\ UNCHANGED << nodes, weight, row_data, compact_graph, overlayVars, osmVars,
                  osm_edges, osm_graph, geometry_iter, matched, searchVars, routeVars >>

ReaderNext ==
  \/ \E way_nodes \in WayNodes, tags \in WayTags : ReadWay(way_nodes, tags)
  \/ ReadEdges

SpecReader == ReaderInit /\ [][ReaderNext]_vars

(* ------------------------- spatial primitives -------------------------- *)
\* A Position is a pair (x, y) in units of 50 m. The S2 cells of the index
\* level are strips of CellWidth units along x: cell c is the closed strip
\* c * CellWidth <= x <= (c + 1) * CellWidth, and a point on a border belongs
\* to the cell on its right.
CellWidth == 2

\* the 100.0 (metres) of match_waypoint
HundredMetres == 2

\* to_s2(&p).parent(SPATIAL_INDEX_S2_LEVEL)
to_s2_parent(p) == p[1] \div CellWidth

\* geo's haversine_destination(bearing, distance): bearing 0 is north, 90 is east
haversine_destination(p, bearing, distance) ==
  IF bearing = 0 THEN << p[1], p[2] + distance >>
  ELSE << p[1] + distance, p[2] >>

\* Rect::new: the corners are put in order
BoundingBox_new(a, b) ==
  [min |-> << IF a[1] <= b[1] THEN a[1] ELSE b[1], IF a[2] <= b[2] THEN a[2] ELSE b[2] >>,
   max |-> << IF a[1] <= b[1] THEN b[1] ELSE a[1], IF a[2] <= b[2] THEN b[2] ELSE a[2] >>]

\* envelope(center, distance_m)
envelope(center, distance_m) ==
  LET right == haversine_destination(center, 0, distance_m)
      top == haversine_destination(center, 90, distance_m)
  IN BoundingBox_new(<< 2 * center[1] - right[1], 2 * center[2] - top[2] >>,
                     << right[1], top[2] >>)

\* s2_cover(rect, 13): the cells of the index level that meet the rectangle
\* of the given centre and size, in ascending order
s2_cover(rect) ==
  LET first == (rect.min[1] + CellWidth - 1) \div CellWidth - 1
      last == rect.max[1] \div CellWidth
  IN [i \in 1 .. (last - first + 1) |-> first + i - 1]

\* the index entries of from_row_data before they are sorted: for every node
\* the set of the cells of its geometry points, paired with the node
IndexEntries(offsets, points) ==
  UNION { LET it == RefIterator(points, offsets[idx][1], offsets[idx][2])
          IN { << to_s2_parent(it.out[j]), idx - 1 >> : j \in 1 .. Len(it.out) } :
            idx \in 1 .. Len(offsets) }

\* a sort that leaves the entries in the order of the nodes
RECURSIVE sort_unstable_by_key_KeepsNodeOrder(_)
sort_unstable_by_key_KeepsNodeOrder(entries) ==
  IF entries = {} THEN { << >> }
  ELSE LET least == { x \in entries :
                        \A y \in entries : x[2] < y[2] \/ (x[2] = y[2] /\ x[1] <= y[1]) }
       IN UNION { { << x >> \o rest : rest \in sort_unstable_by_key_KeepsNodeOrder(entries \ { x }) } :
                    x \in least }

\* blocks.sort_unstable_by_key(|(cell_id, _)| *cell_id): every order of the
\* entries that is ascending in the cell; entries of one cell come in any order
RECURSIVE sort_unstable_by_key(_)
sort_unstable_by_key(entries) ==
  IF entries = {} THEN { << >> }
  ELSE LET least == { x \in entries : \A y \in entries : x[1] <= y[1] }
       IN UNION { { << x >> \o rest : rest \in sort_unstable_by_key(entries \ { x }) } :
                    x \in least }

(* ------------------------- build_compact_graph ------------------------- *)
MaxOsmEdges == 2
MaxCoords == 3

\* the car access of a normalized way: closed, one-way or open both ways
CarAccess ==
  { [car_forward |-> CAR_FORBIDDEN, car_backward |-> CAR_FORBIDDEN],
    [car_forward |-> CAR_RESIDENTIAL, car_backward |-> CAR_FORBIDDEN],
    [car_forward |-> CAR_RESIDENTIAL, car_backward |-> CAR_RESIDENTIAL] }

\* an Edge of split_way: two end nodes, at least two coordinates, the way's properties
OsmEdge ==
  { [source |-> a, target |-> b, num_coords |-> n,
     properties |-> [car_forward |-> c.car_forward, car_backward |-> c.car_backward,
                     speed_limit_km_h |-> 50]] :
      a \in OsmNodeIds, b \in OsmNodeIds, n \in 2 .. MaxCoords, c \in CarAccess }

\* the lists of n edges
OsmEdgeLists(n) == [1 .. n -> OsmEdge]

\* the coordinates of the k-th edge; coordinate j of edge k is the pair (k, j)
EdgeGeometry(k, record) == [j \in 1 .. record.num_coords |-> << k, j >>]

\* the stand-in for record.length(): the number of legs of the polyline
EdgeLength(record) == record.num_coords - 1

\* out_segments.entry(node).or_insert_with(Vec::new).push(id)
PushSegment(out_segments, node, id) ==
  [out_segments EXCEPT ![node] = Append(@, id)]

\* the body of the first loop for a record with car_forward != 0
EmitForward(b, k, record) ==
  [b EXCEPT
     !.geom_offsets = Append(@, << Len(b.points), Len(b.points) + record.num_coords >>),
     !.points = @ \o EdgeGeometry(k, record),
     !.out_segments = PushSegment(@, record.source, Len(b.segments)),
     !.target_nodes = Append(@, record.target),
     !.segments = Append(@, [length |-> EdgeLength(record),
                             speed_limit |-> record.properties.speed_limit_km_h])]

\* a backward segment filed under the source of its edge
EmitBackward_UnderSource(b, k, record) ==
  [b EXCEPT
     !.panicked = @ \/ Len(b.points) - record.num_coords - 1 < 0,
     !.geom_offsets = Append(@, << Len(b.points) - 1,
                                   Len(b.points) - record.num_coords - 1 >>),
     !.out_segments = PushSegment(@, record.source, Len(b.segments)),
     !.target_nodes = Append(@, record.source),
     !.segments = Append(@, [length |-> EdgeLength(record),
                             speed_limit |-> record.properties.speed_limit_km_h])]

\* a backward segment that takes the range of its forward sibling as it is
EmitBackward_ForwardRange(b, k, record) ==
  [b EXCEPT
     !.panicked = @ \/ Len(b.points) - record.num_coords - 1 < 0,
     !.geom_offsets = Append(@, << Len(b.points) - record.num_coords, Len(b.points) >>),
     !.out_segments = PushSegment(@, record.target, Len(b.segments)),
     !.target_nodes = Append(@, record.source),
     !.segments = Append(@, [length |-> EdgeLength(record),
                             speed_limit |-> record.properties.speed_limit_km_h])]

\* the body of the first loop for a record with car_backward != 0; the
\* subtraction on usize panics below zero
EmitBackward(b, k, record) ==
  [b EXCEPT
     !.panicked = @ \/ Len(b.points) - record.num_coords - 1 < 0,
     !.geom_offsets = Append(@, << Len(b.points) - 1,
                                   Len(b.points) - record.num_coords - 1 >>),
     !.out_segments = PushSegment(@, record.target, Len(b.segments)),
     !.target_nodes = Append(@, record.source),
     !.segments = Append(@, [length |-> EdgeLength(record),
                             speed_limit |-> record.properties.speed_limit_km_h])]

\* the first loop of build_compact_graph from record k on
RECURSIVE EmitSegments(_, _, _)
EmitSegments(b, edges, k) ==
  IF k > Len(edges) THEN b
  ELSE LET record == edges[k]
           b1 == IF record.properties.car_forward # 0 THEN EmitForward(b, k, record) ELSE b
           b2 == IF record.properties.car_backward # 0 THEN EmitBackward(b1, k, record) ELSE b1
       IN EmitSegments(b2, edges, k + 1)

\* the second loop: the row of every segment is out_segments of its target node
RECURSIVE EdgeRows(_, _, _)
EdgeRows(rows, b, i) ==
  IF i > Len(b.target_nodes) THEN rows
  ELSE EdgeRows([edge_offsets |-> Append(rows.edge_offsets, Len(rows.edge_refs)),
                 edge_refs |-> rows.edge_refs \o b.out_segments[b.target_nodes[i]]],
                b, i + 1)

\* CompactSpatialGraph::from_row_data: the geometry of every node is iterated
\* once for the index; one graph for every outcome of the sort
CompactSpatialGraph_from_row_data(base_graph, offsets, points) ==
  IF base_graph.panicked
       \/ \E i \in 1 .. Len(offsets) :
            RefIterator(points, offsets[i][1], offsets[i][2]).panicked
  THEN { [panicked |-> TRUE, graph |-> base_graph, geometry_refs |-> offsets,
          points |-> points, blocks |-> << >>] }
  ELSE { [panicked |-> FALSE, graph |-> base_graph, geometry_refs |-> offsets,
          points |-> points, blocks |-> blocks] :
           blocks \in sort_unstable_by_key(IndexEntries(offsets, points)) }

\* build_compact_graph: the graphs it can return
build_compact_graph(edges) ==
  LET b == EmitSegments([segments |-> << >>, target_nodes |-> << >>,
                         out_segments |-> [n \in OsmNodeIds |-> << >>],
                         points |-> << << 0, 0 >> >>, geom_offsets |-> << >>,
                         panicked |-> FALSE],
                        edges, 1)
      rows == EdgeRows([edge_offsets |-> << >>, edge_refs |-> << >>], b, 1)
  IN IF b.panicked
     THEN { [panicked |-> TRUE, graph |-> None, geometry_refs |-> << >>, points |-> << >>,
             blocks |-> << >>, segments |-> << >>] }
     ELSE { g @@ [segments |-> b.segments] :
              g \in CompactSpatialGraph_from_row_data(
                      from_row_data(Len(b.segments), rows.edge_offsets, rows.edge_refs),
                      b.geom_offsets, b.points) }

\* IntoGeometry::geometry(id) of a CompactSpatialGraph, collected
CompactSpatialGraph_geometry(g, id) ==
  RefIterator(g.points, g.geometry_refs[id + 1][1], g.geometry_refs[id + 1][2])

\* the edges were read
BuilderInit ==
  /\ nodes = new_with_data
  /\ weight = [p \in AllPairs |-> 0]
  /\ CompactIdle
  /\ OverlayIdle
  /\ OsmIdle
  /\ SearchIdle
  /\ RouteIdle
  /\ \E n \in 0 .. MaxOsmEdges : \E edges \in OsmEdgeLists(n) : osm_edges = Some(edges)
  /\ osm_graph = None
  /\ geometry_iter = None
  /\ reader = None
  /\ matched = None

\* build_compact_graph(&edges)
BuildCompactGraph ==
  /\ osm_edges # None
  /\ osm_graph = None
  /\ \E g \in build_compact_graph(osm_edges[1]) : osm_graph' = Some(g)
  /\ UNCHANGED << nodes, weight, row_data, compact_graph, overlayVars, osmVars,
                  osm_edges, geometry_iter, reader, matched, searchVars, routeVars >>

BuilderNext == BuildCompactGraph

SpecBuilder == BuilderInit /\ [][BuilderNext]_vars

(* -------------------- find_nodes and match_waypoint -------------------- *)
MaxSpatialNodes == 3
NumSpatialPoints == 3
MaxPosition == 2
MaxWaypoint == 4

\* blocks.equal_range_by_key(&cell_id, |i| i.0): two binary searches over
\* blocks[lo .. hi), for the first entry not below and the first above the cell
RECURSIVE lower_bound_by_key(_, _, _, _)
lower_bound_by_key(blocks, cell_id, lo, hi) ==
  IF lo >= hi THEN lo
  ELSE LET mid == (lo + hi) \div 2
       IN IF blocks[mid + 1][1] < cell_id
          THEN lower_bound_by_key(blocks, cell_id, mid + 1, hi)
          ELSE lower_bound_by_key(blocks, cell_id, lo, mid)

RECURSIVE upper_bound_by_key(_, _, _, _)
upper_bound_by_key(blocks, cell_id, lo, hi) ==
  IF lo >= hi THEN lo
  ELSE LET mid == (lo + hi) \div 2
       IN IF blocks[mid + 1][1] <= cell_id
          THEN upper_bound_by_key(blocks, cell_id, mid + 1, hi)
          ELSE upper_bound_by_key(blocks, cell_id, lo, mid)

equal_range_by_key(blocks, cell_id) ==
  << lower_bound_by_key(blocks, cell_id, 0, Len(blocks)),
     upper_bound_by_key(blocks, cell_id, 0, Len(blocks)) >>

\* the loop of find_nodes from the k-th cell of the cover on; get(rng) of a
\* range that is not one is None and adds nothing
RECURSIVE FindInCover(_, _, _)
FindInCover(g, cover, k) ==
  IF k > Len(cover) THEN << >>
  ELSE LET rng == equal_range_by_key(g.blocks, cover[k])
           ids == IF rng[1] <= rng[2]
                  THEN [i \in 1 .. (rng[2] - rng[1]) |-> g.blocks[rng[1] + i][2]]
                  ELSE << >>
       IN ids \o FindInCover(g, cover, k + 1)

\* CompactSpatialGraph::find_nodes
find_nodes(g, bbox) == FindInCover(g, s2_cover(bbox), 1)

\* geo's haversine_distance; the positions of this model lie on one parallel
haversine_distance(from, to) ==
  IF from[1] <= to[1] THEN to[1] - from[1] ELSE from[1] - to[1]

\* geo's closest_point of one line of a polyline: none on a line without
\* length, the position itself when it is on the line, else the nearer end
LineClosest(a, b, position) ==
  LET lo == IF a[1] <= b[1] THEN a ELSE b
      hi == IF a[1] <= b[1] THEN b ELSE a
  IN IF a = b THEN [kind |-> "Indeterminate", point |-> position]
     ELSE IF lo[1] <= position[1] /\ position[1] <= hi[1]
     THEN [kind |-> "Intersection", point |-> position]
     ELSE [kind |-> "SinglePoint", point |-> IF position[1] < lo[1] THEN lo ELSE hi]

\* geo's closest_point of a polyline from its k-th line on, best so far in best
RECURSIVE closest_of(_, _, _, _)
closest_of(geometry, position, k, best) ==
  IF k >= Len(geometry) \/ best.kind = "Intersection" THEN best
  ELSE LET got == LineClosest(geometry[k], geometry[k + 1], position)
           better == IF got.kind = "Indeterminate" THEN best
                     ELSE IF best.kind = "Indeterminate" THEN got
                     ELSE IF got.kind = "Intersection" THEN got
                     ELSE IF haversine_distance(position, got.point)
                               < haversine_distance(position, best.point)
                     THEN got ELSE best
       IN closest_of(geometry, position, k + 1, better)

\* snap_to_geometry; the factor of the snapped position is left out
snap_to_geometry(geometry, position, max_distance) ==
  LET closest == closest_of(geometry, position, 1,
                            [kind |-> "Indeterminate", point |-> position])
  IN CASE closest.kind = "SinglePoint" ->
            LET distance == haversine_distance(position, closest.point)
            IN IF distance < max_distance
               THEN Some([snapped |-> closest.point, distance |-> distance])
               ELSE None
       [] closest.kind = "Intersection" ->
            Some([snapped |-> closest.point, distance |-> 0])
       [] OTHER -> None

\* a filter_map that keeps every snapped entry twice
RECURSIVE SnapAll_EachTwice(_, _, _, _)
SnapAll_EachTwice(g, elements_nearby, waypoint, k) ==
  IF k > Len(elements_nearby) THEN << >>
  ELSE LET id == elements_nearby[k]
           snapped == snap_to_geometry(CompactSpatialGraph_geometry(g, id).out,
                                       waypoint, HundredMetres)
       IN ( IF snapped = None THEN << >>
            ELSE << << snapped[1], id >>, << snapped[1], id >> >> )
          \o SnapAll_EachTwice(g, elements_nearby, waypoint, k + 1)

\* the filter_map of match_waypoint from the k-th element on: SnappedOnEdge
\* is the pair of the snapped position and the node
RECURSIVE SnapAll(_, _, _, _)
SnapAll(g, elements_nearby, waypoint, k) ==
  IF k > Len(elements_nearby) THEN << >>
  ELSE LET id == elements_nearby[k]
           snapped == snap_to_geometry(CompactSpatialGraph_geometry(g, id).out,
                                       waypoint, HundredMetres)
       IN ( IF snapped = None THEN << >> ELSE << << snapped[1], id >> >> )
          \o SnapAll(g, elements_nearby, waypoint, k + 1)

\* a sort that puts the farthest first
RECURSIVE sort_by_distance_FarthestFirst(_)
sort_by_distance_FarthestFirst(positions) ==
  IF positions = << >> THEN << >>
  ELSE LET rest == sort_by_distance_FarthestFirst(Tail(positions))
           before == SelectSeq(rest, LAMBDA e : e[1].distance > Head(positions)[1].distance)
           after == SelectSeq(rest, LAMBDA e : e[1].distance <= Head(positions)[1].distance)
       IN before \o << Head(positions) >> \o after

\* snapped_positions.sort_by(distance): stable, an entry stays behind the
\* earlier entries of the same distance
RECURSIVE sort_by_distance(_)
sort_by_distance(positions) ==
  IF positions = << >> THEN << >>
  ELSE LET rest == sort_by_distance(Tail(positions))
           before == SelectSeq(rest, LAMBDA e : e[1].distance < Head(positions)[1].distance)
           after == SelectSeq(rest, LAMBDA e : e[1].distance >= Head(positions)[1].distance)
       IN before \o << Head(positions) >> \o after

\* Vec::truncate
truncate(seq, len) == IF Len(seq) <= len THEN seq ELSE SubSeq(seq, 1, len)

\* match_waypoint
match_waypoint(g, waypoint) ==
  LET elements_nearby == find_nodes(g, envelope(waypoint, HundredMetres))
      snapped_positions == SnapAll(g, elements_nearby, waypoint, 1)
  IN [waypoint |-> waypoint,
      snapped |-> truncate(sort_by_distance(snapped_positions), 4)]

\* the ranges of the nodes: the empty one, and the forward and the backward
\* ones inside the points
GeometryRanges ==
  { r \in (0 .. NumSpatialPoints) \X (0 .. NumSpatialPoints) :
      r = << 0, 0 >> \/ r[1] < r[2] \/ (r[2] < r[1] /\ r[1] < NumSpatialPoints) }

\* the positions of the points array, on the parallel y = 0
SpatialPositions == { << x, 0 >> : x \in 0 .. MaxPosition }

\* no graph yet
WaypointInit ==
  /\ nodes = new_with_data
  /\ weight = [p \in AllPairs |-> 0]
  /\ CompactIdle
  /\ OverlayIdle
  /\ OsmIdle
  /\ SearchIdle
  /\ RouteIdle
  /\ osm_edges = None
  /\ osm_graph = None
  /\ geometry_iter = None
  /\ reader = None
  /\ matched = None

\* CompactSpatialGraph::from_row_data(base_graph, offsets, points)
SpatialFromRowData ==
  /\ osm_graph = None
  /\ \E num_nodes \in 0 .. MaxSpatialNodes :
       \E offsets \in [1 .. num_nodes -> GeometryRanges] :
         \E points \in [1 .. NumSpatialPoints -> SpatialPositions] :
           \E g \in CompactSpatialGraph_from_row_data(
                      from_row_data(num_nodes, [i \in 1 .. num_nodes |-> 0], << >>),
                      offsets, points) :
             osm_graph' = Some(g)
  /\ UNCHANGED << nodes, weight, row_data, compact_graph, overlayVars, osmVars,
                  osm_edges, geometry_iter, reader, matched, searchVars, routeVars >>

\* graph.find_nodes(&bbox), the one query made on the graph
FindNodes(bbox) ==
  /\ osm_graph # None
  /\ matched = None
  /\ ~osm_graph[1].panicked
  /\ matched' = [call |-> "find_nodes", bbox |-> bbox, waypoint |-> None,
                 elements_nearby |-> find_nodes(osm_graph[1], bbox),
                 snapped |-> << >>]
  /\ UNCHANGED << nodes, weight, row_data, compact_graph, overlayVars, osmVars,
                  osm_edges, osm_graph, geometry_iter, reader, searchVars, routeVars >>

\* match_waypoint(&graph, &waypoint), the one query made on the graph
MatchWaypoint(waypoint) ==
  /\ osm_graph # None
  /\ matched = None
  /\ ~osm_graph[1].panicked
  /\ matched' = [call |-> "match_waypoint", bbox |-> envelope(waypoint, HundredMetres),
                 waypoint |-> Some(waypoint),
                 elements_nearby |-> find_nodes(osm_graph[1],
                                                envelope(waypoint, HundredMetres)),
                 snapped |-> match_waypoint(osm_graph[1], waypoint).snapped]
  /\ UNCHANGED << nodes, weight, row_data, compact_graph, overlayVars, osmVars,
                  osm_edges, osm_graph, geometry_iter, reader, searchVars, routeVars >>

WaypointNext ==
  \/ SpatialFromRowData
  \/ \E lo \in 0 .. MaxPosition + 1 : \E hi \in lo .. MaxPosition + 1 :
       FindNodes(BoundingBox_new(<< lo, 0 >>, << hi, 0 >>))
  \/ \E x \in 0 .. MaxWaypoint : MatchWaypoint(<< x, 0 >>)

SpecWaypoint == WaypointInit /\ [][WaypointNext]_vars

(* ------------------------- geometry iteration -------------------------- *)
MaxPoints == 4

\* the points array: the point at index i (0-based) is 100 + i
Points(n) == [k \in 1 .. n |-> 100 + (k - 1)]

\* RefIterator::new(items, first, last), with what the caller has collected,
\* the indices read and whether the iterator returned None
RefIterator_new(items, first, last) ==
  [items |-> items, first |-> first, next |-> first, last |-> last,
   yielded |-> << >>, reads |-> << >>, panicked |-> FALSE, done |-> FALSE]

\* next that steps before it reads
RefIterator_next_StepFirst(it) ==
  IF it.next = it.last THEN [it EXCEPT !.done = TRUE]
  ELSE LET index == IF it.next < it.last THEN it.next + 1 ELSE it.next - 1
       IN IF index >= Len(it.items)
          THEN [it EXCEPT !.next = index, !.reads = Append(@, index), !.panicked = TRUE]
          ELSE [it EXCEPT !.next = index, !.reads = Append(@, index),
                          !.yielded = Append(@, it.items[index + 1])]

\* RefIterator::next: one call
RefIterator_next(it) ==
  IF it.next = it.last THEN [it EXCEPT !.done = TRUE]
  ELSE LET index == it.next
           next1 == IF it.next < it.last THEN it.next + 1 ELSE it.next
           next2 == IF next1 > it.last THEN next1 - 1 ELSE next1
       IN IF index >= Len(it.items)
          THEN [it EXCEPT !.next = next2, !.reads = Append(@, index), !.panicked = TRUE]
          ELSE [it EXCEPT !.next = next2, !.reads = Append(@, index),
                          !.yielded = Append(@, it.items[index + 1])]

\* graph.geometry(id) for a node whose range is (s, e)
GeometryInit ==
  /\ nodes = new_with_data
  /\ weight = [p \in AllPairs |-> 0]
  /\ CompactIdle
  /\ OverlayIdle
  /\ OsmIdle
  /\ SearchIdle
  /\ RouteIdle
  /\ osm_edges = None
  /\ osm_graph = None
  /\ reader = None
  /\ matched = None
  /\ \E n \in 0 .. MaxPoints : \E s \in 0 .. n, e \in 0 .. n :
       geometry_iter = Some(RefIterator_new(Points(n), s, e))

\* the caller asks for the next point
GeometryNext ==
  /\ geometry_iter # None
  /\ ~geometry_iter[1].done
  /\ ~geometry_iter[1].panicked
  /\ geometry_iter' = Some(RefIterator_next(geometry_iter[1]))
  /\ UNCHANGED << nodes, weight, row_data, compact_graph, overlayVars, osmVars,
                  osm_edges, osm_graph, reader, matched, searchVars, routeVars >>

SpecGeometry == GeometryInit /\ [][GeometryNext]_vars

\* collect() keeps calling next until it returns None
FairSpecGeometry == SpecGeometry /\ WF_vars(GeometryNext)

(* --------------------------- building graphs --------------------------- *)
RECURSIVE SumLen(_, _, _)
SumLen(g, d, n) ==
  IF n = 0 THEN 0 ELSE Len(Neighbors(g, d, n - 1)) + SumLen(g, d, n - 1)

TotalEdges(g) == SumLen(g, "Forward", NumNodes)

GraphInit ==
  /\ nodes = new_with_data
  /\ weight = [p \in AllPairs |-> 0]
  /\ CompactIdle
  /\ OverlayIdle
  /\ OsmIdle
  /\ SpatialIdle
  /\ SearchIdle
  /\ RouteIdle

\* DynamicGraph::add_edge on the graph built so far
AddEdge(f, t) ==
  /\ compact_graph = None
  /\ TotalEdges(nodes) < MaxEdges
  /\ nodes' = add_edge(nodes, f, t)
  /\ UNCHANGED << weight, row_data, compact_graph, overlayVars, osmVars, spatialVars, searchVars, routeVars >>

\* CompactGraph::from_row_data; each behaviour builds one of the two graphs
FromRowData ==
  /\ compact_graph = None
  /\ nodes = new_with_data
  /\ \E num_edges \in 0 .. MaxEdges : \E rd \in RowData(num_edges) :
       /\ row_data' = Some(rd)
       /\ compact_graph' = Some(from_row_data(NumNodes, rd.offsets, rd.out_references))
  /\ UNCHANGED << nodes, weight, overlayVars, osmVars, spatialVars, searchVars, routeVars >>

GraphNext == (\E f, t \in Nodes : AddEdge(f, t)) \/ FromRowData

SpecGraph == GraphInit /\ [][GraphNext]_vars

(* ---------------------------- OverlayGraph ----------------------------- *)
\* MoreNodes::new (Idx is u32; the ids below stay far from its upper end)
MoreNodes_new(max_id) == [max_id |-> max_id, next |-> max_id + 1]

\* new_node_id that hands out the id after the counter
new_node_id_SkipsOne(ext) ==
  [ext |-> [ext EXCEPT !.next = 2 + ext.next], id |-> Some(ext.next + 1)]

\* MoreNodes::new_node_id: the extension afterwards and the id returned
new_node_id(ext) ==
  [ext |-> [ext EXCEPT !.next = 1 + ext.next], id |-> Some(ext.next)]

\* contains without the lower end of the range
contains_NoLowerEnd(ext, id) == id < ext.next

\* MoreNodes::contains
contains(ext, id) == id > ext.max_id /\ id < ext.next

\* number_of_nodes() of the base graph: nodes.len(), which for the compact graphs
\* counts the sentinel node
GraphKinds == { "DynamicGraph", "DynamicSpatialGraph", "CompactSpatialGraph" }
number_of_nodes(kind) == IF kind = "CompactSpatialGraph" THEN NumNodes + 1 ELSE NumNodes

\* new_extension
new_extension(kind) == MoreNodes_new(number_of_nodes(kind))

\* geometry of a base node: the two end points of its Segment
BaseGeometry(id) == << 2 * id, 2 * id + 1 >>

\* SnappedPosition: the snapped point and the factor in tenths
SnapPoint == 0 - 1
Factors == { 0, 4 }
SnappedPosition(factor) == [snapped |-> SnapPoint, factor |-> factor]

\* cut_geometry_before: the point, then the end points of the lines left after
\* skip_while; how many lines the floating point test skips is left open
cut_geometry_before(geometry, point) ==
  IF Len(geometry) < 2 THEN { << point >> }
  ELSE { << point >> \o SubSeq(geometry, k + 2, Len(geometry)) :
           k \in 0 .. (Len(geometry) - 1) }

\* cut_geometry_after: the start points of the lines taken by take_while, then the point
cut_geometry_after(geometry, point) ==
  IF Len(geometry) < 2 THEN { << point >> }
  ELSE { SubSeq(geometry, 1, k) \o << point >> : k \in 0 .. (Len(geometry) - 1) }

OverlayNode_new(base_id, positions, snapped_position) ==
  [base_id |-> base_id, out_edges |-> << >>, in_edges |-> << >>,
   geometry |-> positions, snapped_position |-> snapped_position]

\* entry(id).or_insert(node)
OrInsert(m, id, node) ==
  IF id \in DOMAIN m THEN m
  ELSE [k \in DOMAIN m \cup {id} |-> IF k = id THEN node ELSE m[k]]

\* neighbours of an overlay node taken from out_edges whatever the direction
OverlayNeighbors_OutEdgesOnly(g, o_nodes, ext, d, node_id) ==
  IF contains(ext, node_id)
  THEN IF node_id \notin DOMAIN o_nodes THEN [out |-> << >>, panicked |-> TRUE]
       ELSE [out |-> o_nodes[node_id].out_edges, panicked |-> FALSE]
  ELSE [out |-> Neighbors(g, d, node_id), panicked |-> FALSE]

\* IntoNeighbors<Dir> for &OverlayGraph: the ids yielded, or the panic of unwrap()
OverlayNeighbors(g, o_nodes, ext, d, node_id) ==
  IF contains(ext, node_id)
  THEN IF node_id \notin DOMAIN o_nodes THEN [out |-> << >>, panicked |-> TRUE]
       ELSE [out |-> IF d = "Forward" THEN o_nodes[node_id].out_edges
                     ELSE o_nodes[node_id].in_edges,
             panicked |-> FALSE]
  ELSE [out |-> Neighbors(g, d, node_id), panicked |-> FALSE]

\* IntoGeometry for &OverlayGraph
OverlayGeometry(o_nodes, ext, node_id) ==
  IF contains(ext, node_id)
  THEN IF node_id \notin DOMAIN o_nodes THEN [out |-> << >>, panicked |-> TRUE]
       ELSE [out |-> o_nodes[node_id].geometry, panicked |-> FALSE]
  ELSE [out |-> BaseGeometry(node_id), panicked |-> FALSE]

\* OverlayGraph::new
OverlayInit ==
  /\ SearchIdle
  /\ RouteIdle
  /\ CompactIdle
  /\ OsmIdle
  /\ SpatialIdle
  /\ \E E \in EdgeSets : nodes = graph_from_data_and_edges(SortedEdges(E))
  /\ weight = [p \in AllPairs |-> 0]
  /\ overlay_nodes = << >>
  /\ \E kind \in GraphKinds : extended_ids = Some(new_extension(kind))
  /\ issued = << >>

\* OverlayGraph::add_origin
add_origin(base_node_id, factor) ==
  /\ Len(issued) < MaxOverlayNodes
  /\ LET r == new_node_id(extended_ids[1])
         id == r.id[1]
     IN /\ extended_ids' = Some(r.ext)
        /\ \E geometry \in cut_geometry_before(
                             BaseGeometry(base_node_id),
                             SnapPoint) :
             overlay_nodes' =
               [OrInsert(overlay_nodes, id,
                         OverlayNode_new(base_node_id, geometry,
                                         SnappedPosition(10 - factor)))
                  EXCEPT ![id].out_edges = Neighbors(nodes, "Forward", base_node_id)]
        /\ issued' = Append(issued, [kind |-> "origin", base_id |-> base_node_id, id |-> id])
  /\ UNCHANGED << nodes, weight, row_data, compact_graph, osmVars, spatialVars, searchVars, routeVars >>

\* OverlayGraph::add_destination
add_destination(base_node_id, factor) ==
  /\ Len(issued) < MaxOverlayNodes
  /\ LET r == new_node_id(extended_ids[1])
         id == r.id[1]
     IN /\ extended_ids' = Some(r.ext)
        /\ \E geometry \in cut_geometry_after(
                             BaseGeometry(base_node_id),
                             SnapPoint) :
             overlay_nodes' =
               [OrInsert(overlay_nodes, id,
                         OverlayNode_new(base_node_id, geometry, SnappedPosition(factor)))
                  EXCEPT ![id].in_edges = Neighbors(nodes, "Backward", base_node_id)]
        /\ issued' = Append(issued,
                            [kind |-> "destination", base_id |-> base_node_id, id |-> id])
  /\ UNCHANGED << nodes, weight, row_data, compact_graph, osmVars, spatialVars, searchVars, routeVars >>

OverlayNext ==
  \E b \in Nodes, f \in Factors : add_origin(b, f) \/ add_destination(b, f)

SpecOverlay == OverlayInit /\ [][OverlayNext]_vars

(* ======================= claims on the search space ==================== *)
Range(seq) == { seq[i] : i \in 1 .. Len(seq) }
SetMin(S) == CHOOSE x \in S : \A y \in S : x <= y
Last(seq) == seq[Len(seq)]
Infinity == NumNodes * MaxWeight + 1

\* one round of relaxing every Dir-edge, independent of any queue
BestStep(g, w, d, dist) ==
  [v \in Nodes |->
     SetMin({dist[v]} \cup
            { dist[u] + w[<< u, v >>] :
                u \in { x \in Nodes : dist[x] < Infinity /\ v \in Range(Neighbors(g, d, x)) } })]

RECURSIVE BestRounds(_, _, _, _, _)
BestRounds(g, w, d, dist, k) ==
  IF k = 0 THEN dist ELSE BestRounds(g, w, d, BestStep(g, w, d, dist), k - 1)

\* the least sum of transition_weight over the Dir-paths from a node of starts
Shortest(g, w, d, starts) ==
  BestRounds(g, w, d, [v \in Nodes |-> IF v \in starts THEN 0 ELSE Infinity], NumNodes)

Reachable(g, w, d, starts) == { v \in Nodes : Shortest(g, w, d, starts)[v] < Infinity }

\* C1: with every init made before the first update, each settled node carries
\* the least cost of a Dir-path from a start node.
C1_SettledCostIsShortest ==
  lateInits = 0 =>
    \A v \in SettledNodes(search_space) :
      search_space.labels[v].cost = Shortest(nodes, weight, dir, inits)[v]

\* a node settled with a positive cost at the end of a path of two edges, backward
C1_Witness ==
  /\ lateInits = 0
  /\ dir = "Backward"
  /\ \E v \in SettledNodes(search_space) :
       /\ search_space.labels[v].cost > 0
       /\ search_space.labels[v].parent \notin inits

\* C2: with every init made before the first update, no step changes the
\* (cost, parent, settled) triple of a settled node, and the assertion in relax holds.
C2_SettledLabelsFrozen ==
  [][ lateInits' = 0 =>
        /\ ~search_space'.panicked
        /\ \A v \in SettledNodes(search_space) :
             search_space'.labels[v] = search_space.labels[v] ]_vars

\* two settled nodes on a cycle: one of them was relaxed again after it was settled
C2_Witness ==
  /\ lateInits = 0
  /\ \E u, v \in SettledNodes(search_space) :
       /\ u # v
       /\ v \in Range(Neighbors(nodes, dir, u))
       /\ u \in Range(Neighbors(nodes, dir, v))

\* C3: after init(s) alone, the first R updates return true and settle one new
\* node each, every later one returns false (R = nodes reachable from s).
C3_TrueExactlyRTimes ==
  (Cardinality(inits) = 1 /\ lateInits = 0) =>
    LET R == Cardinality(Reachable(nodes, weight, dir, inits))
    IN /\ \A k \in 1 .. Len(rets) : rets[k] = (k <= R)
       /\ Cardinality(SettledNodes(search_space)) = (IF Len(rets) <= R THEN Len(rets) ELSE R)

\* every node reachable, and the call after the last settlement popped a stale entry
C3_Witness ==
  /\ Cardinality(inits) = 1
  /\ lateInits = 0
  /\ Cardinality(Reachable(nodes, weight, dir, inits)) = NumNodes
  /\ Len(rets) = NumNodes + 1
  /\ ~Last(rets)
  /\ popped >= 1

\* C4 as stated: update returns true iff it popped at least one entry.
C4_TrueIffPopped ==
  (rets # << >> /\ ~search_space.panicked) => (Last(rets) <=> popped >= 1)

\* C4 amended: update returns true iff it settled a node in that call (exactly
\* one); a call that returns true popped at least one entry.
C4_TrueIffSettled ==
  (rets # << >> /\ ~search_space.panicked) =>
    /\ Last(rets) <=> Cardinality(newly) = 1
    /\ Cardinality(newly) <= 1
    /\ Last(rets) => popped >= 1

\* an update that popped only stale entries
C4_Witness ==
  /\ lateInits = 0
  /\ rets # << >>
  /\ ~search_space.panicked
  /\ ~Last(rets)
  /\ popped >= 1

(* ============================ claims on route ========================== *)
IsForwardPath(g, ids) ==
  \A i \in 1 .. (Len(ids) - 1) : ids[i + 1] \in Range(Neighbors(g, "Forward", ids[i]))

RECURSIVE PathCost(_, _)
PathCost(w, ids) ==
  IF Len(ids) <= 1 THEN 0
  ELSE w[<< ids[1], ids[2] >>] + PathCost(w, Tail(ids))

\* the least cost of a forward path of zero or more edges from origins to destinations
BestCost(g, w, origins, destinations) ==
  SetMin({ Shortest(g, w, "Forward", origins)[v] : v \in destinations })

\* C5: route returns None exactly when no destination id is reachable from an
\* origin id by a forward path of zero or more edges.
C5_NoneIffUnreachable ==
  pc = "done" =>
    (result = None <=>
       Reachable(nodes, weight, "Forward", from_ids) \cap target_ids = {})

\* C6: a returned route is a forward path from an origin to a destination, its
\* cost is the sum of the weights along it, and no origin-to-destination path is cheaper.
C6_RouteIsShortestPath ==
  (pc = "done" /\ result # None) =>
    LET r == result[1]
    IN /\ r.ids # << >>
       /\ r.ids[1] \in from_ids
       /\ Last(r.ids) \in target_ids
       /\ IsForwardPath(nodes, r.ids)
       /\ r.cost = PathCost(weight, r.ids)
       /\ r.cost = BestCost(nodes, weight, from_ids, target_ids)

(* ========================= claims on route_bidir ======================= *)
\* C7: when route_bidir returns a route and route returns a route on the same
\* instance, the two costs are equal.
C7_BidirCostEqualsRouteCost ==
  (pc = "done" /\ result # None) =>
    \A r \in route(nodes, weight, from_ids, target_ids) :
      r # None => result[1].cost = r[1].cost

\* C8: route_bidir returns on every graph and every pair of waypoints.
C8_BidirTerminates == <>(pc = "done")

\* C9: the recorded meeting cost and node are replaced only when none is recorded
\* yet or the new cost is strictly smaller, so the recorded cost never increases.
C9_MinCostOnlyDecreases ==
  [][ search' # search =>
        /\ search'.min_cost # None
        /\ search.min_cost = None \/ search'.min_cost[1] < search.min_cost[1] ]_vars

(* ============================ claims on graphs ========================= *)
Count(seq, x) == Cardinality({ k \in 1 .. Len(seq) : seq[k] = x })

ValidRowData(rd) ==
  /\ \A n \in 1 .. (Len(rd.offsets) - 1) : rd.offsets[n] <= rd.offsets[n + 1]
  /\ \A k \in 1 .. Len(rd.out_references) : rd.out_references[k] < NumNodes

\* C10: in a DynamicGraph reached by add_edge calls and in a CompactGraph built
\* by from_row_data from valid row data, every pair (i, j) occurs as often with
\* j among the forward neighbours of i as with i among the backward neighbours of j.
C10_ForwardBackwardSamePairs ==
  /\ \A i, j \in Nodes :
       Count(Neighbors(nodes, "Forward", i), j) = Count(Neighbors(nodes, "Backward", j), i)
  /\ (compact_graph # None /\ ValidRowData(row_data[1]) /\ ~compact_graph[1].panicked) =>
       \A i, j \in Nodes :
         LET fw == CompactNeighbors(compact_graph[1], "Forward", i)
             bw == CompactNeighbors(compact_graph[1], "Backward", j)
         IN /\ ~fw.panicked
            /\ ~bw.panicked
            /\ Count(fw.out, j) = Count(bw.out, i)

\* a CompactGraph from valid row data in which node 0 has the same neighbour twice
\* and some node has two different predecessors
C10_Witness ==
  /\ compact_graph # None
  /\ ValidRowData(row_data[1])
  /\ ~compact_graph[1].panicked
  /\ \E j \in Nodes : Count(CompactNeighbors(compact_graph[1], "Forward", 0).out, j) = 2
  /\ \E j \in Nodes :
       Cardinality(Range(CompactNeighbors(compact_graph[1], "Backward", j).out)) = 2

\* the offsets a CompactGraph reports: built, N data rows, E outgoing references
CompactOffsetsInBounds(cg, rd) ==
  LET E == Len(rd.out_references)
  IN /\ \A i \in 0 .. (NumNodes - 1) :
          /\ 0 <= cg.nodes[i].out_edges_offset
          /\ cg.nodes[i].out_edges_offset <= cg.nodes[i + 1].out_edges_offset
          /\ cg.nodes[i + 1].out_edges_offset <= E
          /\ E <= cg.nodes[i].in_edges_offset
          /\ cg.nodes[i].in_edges_offset <= cg.nodes[i + 1].in_edges_offset
          /\ cg.nodes[i + 1].in_edges_offset <= 2 * E
     /\ cg.nodes[0].in_edges_offset = E
     /\ cg.nodes[NumNodes].in_edges_offset = 2 * E
     /\ Len(cg.edge_references) = 2 * E

\* C11 as stated: every CompactGraph that from_row_data returns has its outgoing
\* offsets non-decreasing within [0, E], its ingoing offsets non-decreasing within
\* [E, 2E] from E to 2E, and 2E edge references.
C11_OffsetsInBounds ==
  (compact_graph # None /\ ~compact_graph[1].panicked) =>
    CompactOffsetsInBounds(compact_graph[1], row_data[1])

\* row data in which the offsets start at 0 and never decrease and every target is a node
WellFormedRowData(rd) ==
  /\ rd.offsets[1] = 0
  /\ ValidRowData(rd)

\* C11 amended: the same bounds for every CompactGraph that from_row_data returns
\* on row data whose offsets start at 0, never decrease and whose targets are < N.
C11_OffsetsInBoundsWellFormed ==
  (compact_graph # None /\ ~compact_graph[1].panicked /\ WellFormedRowData(row_data[1])) =>
    CompactOffsetsInBounds(compact_graph[1], row_data[1])

\* a graph with MaxEdges references built from well-formed row data, one node with
\* two ingoing edges and one with none
C11_Witness ==
  /\ compact_graph # None
  /\ ~compact_graph[1].panicked
  /\ WellFormedRowData(row_data[1])
  /\ Len(row_data[1].out_references) = MaxEdges
  /\ \E j \in Nodes :
       compact_graph[1].nodes[j + 1].in_edges_offset = compact_graph[1].nodes[j].in_edges_offset + 2
  /\ \E j \in Nodes :
       compact_graph[1].nodes[j + 1].in_edges_offset = compact_graph[1].nodes[j].in_edges_offset

(* ============================ claims on overlays ======================= *)
IsOverlayId(id) == id \in DOMAIN overlay_nodes \/ contains(extended_ids[1], id)

\* C12: through the overlay every base node has the forward neighbours, backward
\* neighbours and geometry of the base graph, and none of these neighbours is an
\* overlay id.
C12_BaseNodesUnchanged ==
  extended_ids # None =>
    \A b \in Nodes :
      LET fw == OverlayNeighbors(nodes, overlay_nodes, extended_ids[1], "Forward", b)
          bw == OverlayNeighbors(nodes, overlay_nodes, extended_ids[1], "Backward", b)
          ge == OverlayGeometry(overlay_nodes, extended_ids[1], b)
      IN /\ ~fw.panicked /\ fw.out = Neighbors(nodes, "Forward", b)
         /\ ~bw.panicked /\ bw.out = Neighbors(nodes, "Backward", b)
         /\ ~ge.panicked /\ ge.out = BaseGeometry(b)
         /\ \A id \in Range(fw.out) \cup Range(bw.out) : ~IsOverlayId(id)

\* an origin and a destination were added on a base node that has successors and
\* predecessors
C12_Witness ==
  /\ Len(issued) = 2
  /\ issued[1].kind = "origin"
  /\ issued[2].kind = "destination"
  /\ issued[1].base_id = issued[2].base_id
  /\ Neighbors(nodes, "Forward", issued[1].base_id) # << >>
  /\ Neighbors(nodes, "Backward", issued[1].base_id) # << >>

\* C13: the id returned by add_origin(b, snap) has the forward neighbours of b and
\* no backward neighbour; the id returned by add_destination(b, snap) has the
\* backward neighbours of b and no forward neighbour.
C13_OverlayNodeNeighbors ==
  \A k \in 1 .. Len(issued) :
    LET fw == OverlayNeighbors(nodes, overlay_nodes, extended_ids[1], "Forward", issued[k].id)
        bw == OverlayNeighbors(nodes, overlay_nodes, extended_ids[1], "Backward", issued[k].id)
    IN /\ ~fw.panicked
       /\ ~bw.panicked
       /\ issued[k].kind = "origin" =>
            /\ fw.out = Neighbors(nodes, "Forward", issued[k].base_id)
            /\ bw.out = << >>
       /\ issued[k].kind = "destination" =>
            /\ bw.out = Neighbors(nodes, "Backward", issued[k].base_id)
            /\ fw.out = << >>

\* a destination, then an origin, added on two different base nodes that each
\* have successors and predecessors
C13_Witness ==
  /\ Len(issued) = 2
  /\ issued[1].kind = "destination"
  /\ issued[2].kind = "origin"
  /\ issued[1].base_id # issued[2].base_id
  /\ \A k \in 1 .. 2 :
       /\ Neighbors(nodes, "Forward", issued[k].base_id) # << >>
       /\ Neighbors(nodes, "Backward", issued[k].base_id) # << >>

\* C14: the ids handed out by an extension are pairwise distinct and greater than
\* every base node id, the k-th one is number_of_nodes() + k, and contains holds
\* exactly for the ids handed out so far.
C14_ExtensionIds ==
  extended_ids # None =>
    LET ext == extended_ids[1]
        handed == { issued[k].id : k \in 1 .. Len(issued) }
    IN /\ \A k, l \in 1 .. Len(issued) : k # l => issued[k].id # issued[l].id
       /\ \A k \in 1 .. Len(issued) :
            /\ \A b \in Nodes : issued[k].id > b
            /\ issued[k].id = ext.max_id + k
       /\ \A id \in 0 .. (ext.max_id + MaxOverlayNodes + 2) :
            contains(ext, id) <=> id \in handed

\* every id the bound allows was handed out by the extension of a compact graph
C14_Witness ==
  /\ extended_ids # None
  /\ extended_ids[1].max_id = NumNodes + 1
  /\ Len(issued) = MaxOverlayNodes
  /\ issued[MaxOverlayNodes].id = NumNodes + 1 + MaxOverlayNodes

(* ----------------------- claims: EdgeProperties ------------------------ *)
AccessFields == { "foot", "car_forward", "car_backward", "bike_forward", "bike_backward" }

\* C15: normalize is idempotent on every record that updates or direct
\* assignments of values in -1..6 produce, and a record that was just
\* normalized has no access field left UNKNOWN.
C15_NormalizeIdempotent ==
  (props # None /\ ~props.panicked) =>
    /\ normalize(normalize(props)) = normalize(props)
    /\ \A f \in AccessFields : normalize(props)[f] # UNKNOWN
    /\ props_log.normalized =>
         /\ normalize(props) = props
         /\ \A f \in AccessFields : props[f] # UNKNOWN

\* a record whose forward fields were set by tags and whose backward fields
\* were UNKNOWN has been normalized
C15_Witness ==
  /\ props # None /\ props_log # None
  /\ props_log.normalized
  /\ props_log.exact
  /\ props_log.applied = << << "highway", "primary" >>, << "maxspeed", "50 mph" >> >>
  /\ props.car_backward = CAR_PRIMARY
  /\ props.bike_backward = BIKE_ALLOWED


RecordFields == AccessFields \cup { "speed_limit_km_h" }

\* two records that differ in every field, the second with no value a tag writes
Probe1 == EdgeProperties_default
Probe2 ==
  [foot |-> 7, car_forward |-> 7, car_backward |-> 7, bike_forward |-> 7,
   bike_backward |-> 7, speed_limit_km_h |-> 51, panicked |-> FALSE]

\* the fields a tag writes: those its update changes in one of the two records
Writes(t) ==
  { f \in RecordFields :
      \E p \in { Probe1, Probe2 } :
        /\ ~EdgeProperties_update(p, t[1], t[2]).panicked
        /\ EdgeProperties_update(p, t[1], t[2])[f] # p[f] }

\* the value a tag writes to a field it writes
WrittenValue(t, f) ==
  IF EdgeProperties_update(Probe1, t[1], t[2])[f] # Probe1[f]
  THEN EdgeProperties_update(Probe1, t[1], t[2])[f]
  ELSE EdgeProperties_update(Probe2, t[1], t[2])[f]

\* exactly two tags were applied to a fresh record and both calls returned
TwoTagsApplied ==
  /\ props # None /\ props_log # None
  /\ ~props.panicked
  /\ props_log.exact /\ ~props_log.normalized
  /\ Len(props_log.applied) = 2

\* the one-way tags write bike_backward only while it is UNKNOWN
WritesIfUnknown(t, f) ==
  /\ f = "bike_backward"
  /\ t \in { << "oneway", "yes" >>, << "junction", "roundabout" >> }

\* C16 as stated: two tags applied to default() give the same record in either
\* order when they write no common field, and otherwise every common field
\* ends with the value written by the tag applied last.
C16_LastWriteWins ==
  TwoTagsApplied =>
    LET A == props_log.applied[1]
        B == props_log.applied[2]
    IN IF Writes(A) \cap Writes(B) = { }
       THEN props = ApplyTags(EdgeProperties_default, << B, A >>)
       ELSE \A f \in Writes(A) \cap Writes(B) : props[f] = WrittenValue(B, f)

\* C16 amended: as above, except that a one-way tag (oneway=yes,
\* junction=roundabout) applied last leaves in bike_backward the value the
\* first tag wrote.
C16_LastWriteWinsButOneWay ==
  TwoTagsApplied =>
    LET A == props_log.applied[1]
        B == props_log.applied[2]
    IN IF Writes(A) \cap Writes(B) = { }
       THEN props = ApplyTags(EdgeProperties_default, << B, A >>)
       ELSE \A f \in Writes(A) \cap Writes(B) :
              props[f] = IF WritesIfUnknown(B, f) THEN WrittenValue(A, f)
                         ELSE WrittenValue(B, f)

\* cycleway=opposite and then oneway=yes were applied: bike_backward is a
\* common field and keeps the value of the first tag
C16_Witness ==
  /\ TwoTagsApplied
  /\ props_log.applied = << << "cycleway", "opposite" >>, << "oneway", "yes" >> >>
  /\ "bike_backward" \in Writes(<< "cycleway", "opposite" >>) \cap Writes(<< "oneway", "yes" >>)
  /\ props.bike_backward = BIKE_ALLOWED
  /\ props.car_backward = CAR_FORBIDDEN

\* C17: update("maxspeed", v) never aborts, for every tag value v: it sets
\* speed_limit_km_h to the integer parsed from v (times 1.6, cut to u8, when the
\* unit is mph) or leaves it unchanged, also for numbers above 255.
C17_MaxspeedNeverAborts ==
  [][ \A v \in DOMAIN Chars :
        ( /\ props # None /\ props_log # None
          /\ props_log.exact
          /\ props_log'.applied = Append(props_log.applied, << "maxspeed", v >>) )
        => /\ ~props'.panicked
           /\ \/ props'.speed_limit_km_h = props.speed_limit_km_h
              \/ parse_max_speed(v).value = Some(props'.speed_limit_km_h) ]_vars

(* --------------------- claims: build_compact_graph --------------------- *)
\* the segments the edges call for, in the order of the edges: for every edge
\* the forward one (source to target) and then the backward one (target to source)
RECURSIVE Emitted(_, _)
Emitted(edges, k) ==
  IF k > Len(edges) THEN << >>
  ELSE ( IF edges[k].properties.car_forward # CAR_FORBIDDEN
         THEN << [edge |-> k, dir |-> "forward", source |-> edges[k].source,
                  target |-> edges[k].target] >>
         ELSE << >> )
       \o ( IF edges[k].properties.car_backward # CAR_FORBIDDEN
            THEN << [edge |-> k, dir |-> "backward", source |-> edges[k].target,
                     target |-> edges[k].source] >>
            ELSE << >> )
       \o Emitted(edges, k + 1)

Built == osm_graph # None /\ ~osm_graph[1].panicked

\* forward_neighbors of segment id (0-based) in the built graph, as a set
SegmentNeighbors(id) == Range(CompactNeighbors(osm_graph[1].graph, "Forward", id).out)

\* C18: in the built graph the forward neighbours of every emitted segment S
\* with target OSM node T are exactly the emitted segments whose source is T.
C18_SuccessorsShareNode ==
  Built =>
    LET segs == Emitted(osm_edges[1], 1)
    IN /\ Len(osm_graph[1].segments) = Len(segs)
       /\ \A i \in 1 .. Len(segs) :
            /\ ~CompactNeighbors(osm_graph[1].graph, "Forward", i - 1).panicked
            /\ SegmentNeighbors(i - 1)
                 = { j - 1 : j \in { j \in 1 .. Len(segs) : segs[j].source = segs[i].target } }

\* a one-way edge 0 -> 1 and a two-way edge 1 -> 2 were built: the segment of
\* the first edge has both a successor and a non-successor at node 1
C18_Witness ==
  /\ Built
  /\ Len(osm_edges[1]) = 2
  /\ LET segs == Emitted(osm_edges[1], 1)
     IN /\ Len(segs) = 3
        /\ segs[1].target = 1 /\ segs[2].source = 1 /\ segs[3].source = 2
        /\ SegmentNeighbors(0) = { 1 }
        /\ SegmentNeighbors(1) = { 2 }
        /\ SegmentNeighbors(2) = { 1 }

\* C19: the forward and the backward segment emitted for the same edge are
\* never direct neighbours of each other.
C19_NoUTurnOnSameEdge ==
  Built =>
    LET segs == Emitted(osm_edges[1], 1)
    IN \A i, j \in 1 .. Len(segs) :
         (segs[i].edge = segs[j].edge /\ i # j) => (j - 1) \notin SegmentNeighbors(i - 1)

\* C26: in the graph build_compact_graph returns, the geometry of every
\* backward segment is the point sequence of its edge in reverse order, and
\* that of every forward segment is the point sequence itself; this holds
\* for every edge of the list, the first included.
C26_BackwardIsReversed ==
  osm_graph # None =>
    /\ ~osm_graph[1].panicked
    /\ LET segs == Emitted(osm_edges[1], 1)
       IN \A i \in 1 .. Len(segs) :
            LET seen == CompactSpatialGraph_geometry(osm_graph[1], i - 1)
                laid == EdgeGeometry(segs[i].edge, osm_edges[1][segs[i].edge])
            IN /\ ~seen.panicked
               /\ seen.out = IF segs[i].dir = "backward" THEN Reverse(laid) ELSE laid

\* two two-way edges were built: the backward segment of the first edge ends
\* next to the sentinel, that of the second next to the points of the first
C26_Witness ==
  /\ Built
  /\ Len(osm_edges[1]) = 2
  /\ osm_edges[1][1].num_coords = 3
  /\ LET segs == Emitted(osm_edges[1], 1)
     IN /\ Len(segs) = 4
        /\ segs[2].dir = "backward" /\ segs[4].dir = "backward"
        /\ osm_graph[1].geometry_refs[2] = << 3, 0 >>
        /\ CompactSpatialGraph_geometry(osm_graph[1], 1).out
             = << << 1, 3 >>, << 1, 2 >>, << 1, 1 >> >>
        /\ CompactSpatialGraph_geometry(osm_graph[1], 3).out
             = Reverse(CompactSpatialGraph_geometry(osm_graph[1], 2).out)

(* ---------------------- claims: geometry iteration --------------------- *)
\* the points the range (s, e) stands for: forward up to e - 1, backward down to e + 1
ExpectedPoints(items, s, e) ==
  IF s <= e THEN [k \in 1 .. (e - s) |-> items[s + k]]
  ELSE [k \in 1 .. (s - e) |-> items[s - k + 2]]

\* the range lies in the points array
RangeInArray(items, s, e) == (s <= e /\ e <= Len(items)) \/ (e < s /\ s < Len(items))

\* what was yielded so far is the beginning of the points of the range, all of
\* them once None was returned, and index last was not read
C20_YieldsRange ==
  (geometry_iter # None /\ RangeInArray(geometry_iter[1].items,
                                        geometry_iter[1].first, geometry_iter[1].last)) =>
    LET it == geometry_iter[1]
        expected == ExpectedPoints(it.items, it.first, it.last)
    IN /\ ~it.panicked
       /\ Len(it.yielded) <= Len(expected)
       /\ it.yielded = SubSeq(expected, 1, Len(it.yielded))
       /\ it.done => it.yielded = expected
       /\ \A k \in 1 .. Len(it.reads) : it.reads[k] # it.last

\* the iterator returns None (or the read panics) after finitely many calls
C20_Terminates == <>(geometry_iter # None /\ (geometry_iter[1].done \/ geometry_iter[1].panicked))

\* C20: the iteration over a range (s, e) of the points array terminates and
\* yields points[s], ..., points[e-1] when s <= e (nothing when s = e) and
\* points[s], points[s-1], ..., points[e+1] when s > e, and never reads index e.
C20_GeometryRange == [] C20_YieldsRange /\ C20_Terminates

\* a backward range over three points was iterated to the end
C20_Witness ==
  /\ geometry_iter # None
  /\ geometry_iter[1].done
  /\ geometry_iter[1].first = 3 /\ geometry_iter[1].last = 0
  /\ geometry_iter[1].yielded = << 103, 102, 101 >>

(* -------------------- claims: search space, part 2 --------------------- *)
\* C24: whenever update settles a node, the cost of the entry it popped for
\* the node is the cost of the node's label; an entry that costs more than the
\* label is only popped once the node is settled.
C24_SettlesFromFreshEntry ==
  [][ \A o \in update(search_space, nodes, weight, dir) :
        (~search_space.panicked /\ o.ss = search_space' /\ o.entry # None)
        => /\ o.entry[1].id \in DOMAIN search_space.labels
           /\ o.entry[1].cost = search_space.labels[o.entry[1].id].cost ]_vars

\* the last update popped an entry it had to skip and then settled a node
\* that had been given a cost with init_with_cost or relaxed to a lower one
C24_Witness ==
  /\ popped >= 2
  /\ newly # {}
  /\ rets # << >> /\ Last(rets)
  /\ ~search_space.panicked

\* C28: unwind(node) terminates for every node: for a labelled node it is the
\* parent chain that begins with node and ends with a node that is its own
\* parent, with no node repeated; for a node without a label it is empty.
C28_UnwindIsChain ==
  ~search_space.panicked =>
    \A node \in Nodes :
      LET u == unwind(search_space, node)
      IN IF node \notin DOMAIN search_space.labels THEN u = << >>
         ELSE /\ u # << >> /\ u[1] = node
              /\ Len(u) <= NumNodes
              /\ \A k \in 1 .. Len(u) - 1 : u[k + 1] = search_space.labels[u[k]].parent
              /\ search_space.labels[Last(u)].parent = Last(u)
              /\ \A j, k \in 1 .. Len(u) : j # k => u[j] # u[k]

\* updates have built a chain through all three nodes
C28_Witness ==
  /\ ~search_space.panicked
  /\ rets # << >>
  /\ \E node \in Nodes : Len(unwind(search_space, node)) = NumNodes
  /\ \E node \in Nodes : node \notin DOMAIN search_space.labels \/ Len(unwind(search_space, node)) = 1

\* every labelled node that is not settled has a queue entry with the cost of its label
UnsettledAreQueued(ss) ==
  \A v \in DOMAIN ss.labels :
    ~ss.labels[v].settled =>
      \E k \in 1 .. Len(ss.pq) : ss.pq[k].id = v /\ ss.pq[k].cost = ss.labels[v].cost

\* C29: whenever update returns false the queue is empty and every labelled
\* node is settled; in every reachable state each labelled unsettled node has
\* a queue entry whose cost equals its label cost.
C29_FalseMeansExhausted ==
  /\ [] UnsettledAreQueued(search_space)
  /\ [][ (rets' # rets /\ ~Last(rets'))
         => /\ search_space'.pq = << >>
            /\ \A v \in DOMAIN search_space'.labels : search_space'.labels[v].settled ]_vars

\* update has just returned false after nodes were settled, with another
\* node never labelled
C29_Witness ==
  /\ Len(rets) >= 2 /\ ~Last(rets) /\ rets[1]
  /\ popped >= 1
  /\ search_space.pq = << >>
  /\ DOMAIN search_space.labels # {} /\ DOMAIN search_space.labels # Nodes

(* --------------------- claims: route_bidir, part 2 --------------------- *)
\* C23: when route_bidir returns a route with meeting node m, the ids contain
\* m exactly once, where the two halves join, start with an origin id, end
\* with a destination id, and every consecutive pair is a forward edge.
C23_BidirIdsArePath ==
  (pc = "done" /\ result # None /\ search.metting_node # None) =>
    LET ids == result[1].ids
        m == search.metting_node[1]
        junction == Len(unwind(forward_search, m))
    IN /\ ids # << >>
       /\ Count(ids, m) = 1
       /\ junction >= 1 /\ junction <= Len(ids) /\ ids[junction] = m
       /\ ids[1] \in from_ids
       /\ Last(ids) \in target_ids
       /\ IsForwardPath(nodes, ids)

\* route_bidir has returned a route over two edges whose meeting node is
\* neither an origin nor a destination
C23_Witness ==
  /\ pc = "done" /\ result # None /\ search.metting_node # None
  /\ Len(result[1].ids) = 3
  /\ result[1].ids[2] = search.metting_node[1]
  /\ search.metting_node[1] \notin from_ids \cup target_ids

(* --------------------------- claims: Reader ---------------------------- *)
\* the indices (0-based) at which a way is cut: its intersections after the
\* first node, and its last node
Cuts(r, way) ==
  { i \in 1 .. Len(way.nodes) - 1 : r.nodes[way.nodes[i + 1]] > 1 \/ i = Len(way.nodes) - 1 }

\* the j-th cut in ascending order, the first node counting as cut 0
Cut(r, way, j) ==
  IF j = 0 THEN 0
  ELSE CHOOSE c \in Cuts(r, way) : Cardinality({ d \in Cuts(r, way) : d <= c }) = j

\* the edges that edges() returned for a way
EdgesOf(r, way) == SelectSeq(r.edges[1], LAMBDA e : e.id = way.id)

\* C25: split_way on a way n0..nk (k >= 1) yields a chain of edges from n0 to
\* nk, closed exactly at the nodes of index i >= 1 with uses > 1 or i = k, each
\* with the coordinates of the way from its source to its target inclusive; a
\* way with a single node yields no edge.
C25_SplitWayIsChain ==
  (reader # None /\ reader[1].edges # None) =>
    /\ ~reader[1].panicked
    /\ \A w \in 1 .. Len(reader[1].ways) :
         LET r == reader[1]
             way == r.ways[w]
             es == EdgesOf(r, way)
         IN /\ Len(es) = Cardinality(Cuts(r, way))
            /\ Len(way.nodes) <= 1 => es = << >>
            /\ Len(way.nodes) >= 2 =>
                 /\ es # << >>
                 /\ es[1].source = way.nodes[1]
                 /\ Last(es).target = Last(way.nodes)
                 /\ \A j \in 1 .. Len(es) - 1 : es[j].target = es[j + 1].source
            /\ \A j \in 1 .. Len(es) :
                 /\ es[j].source = way.nodes[Cut(r, way, j - 1) + 1]
                 /\ es[j].target = way.nodes[Cut(r, way, j) + 1]
                 /\ es[j].geometry =
                      [i \in 1 .. (Cut(r, way, j) - Cut(r, way, j - 1) + 1) |->
                         NodeCoord(way.nodes[Cut(r, way, j - 1) + i])]

\* two ways were split: one of three nodes that is cut at its middle node,
\* where the other way starts, and so yields two edges
C25_Witness ==
  /\ reader # None /\ reader[1].edges # None
  /\ Len(reader[1].ways) = 2
  /\ Len(reader[1].edges[1]) = 3
  /\ Len(reader[1].ways[1].nodes) = 3
  /\ reader[1].nodes[reader[1].ways[1].nodes[2]] = 2
  /\ Len(EdgesOf(reader[1], reader[1].ways[1])) = 2
  /\ Len(reader[1].ways[2].nodes) = 2

(* ------------------- claims: EdgeProperties, part 2 -------------------- *)

\* the one edge of a way with properties p between two nodes
EdgeOfWay(p) ==
  [source |-> 0, target |-> 1, num_coords |-> 2, properties |-> p]

\* updates on a default record, then normalize
UpdatedThenNormalized ==
  /\ props # None /\ props_log # None
  /\ ~props.panicked
  /\ props_log.from_default
  /\ props_log.normalized

\* C27: after any sequence of update calls on a default record followed by
\* normalize, car_backward is FORBIDDEN or equal to car_forward, so cars are
\* never allowed backward where they are forbidden forward, and the backward
\* segment build_compact_graph emits for an edge of the way comes right after
\* the forward segment of the same edge and takes the reverse of its range
C27_BackwardFollowsForward ==
  UpdatedThenNormalized =>
    /\ props.car_backward \in { CAR_FORBIDDEN, props.car_forward }
    /\ ~(props.car_backward # CAR_FORBIDDEN /\ props.car_forward = CAR_FORBIDDEN)
    /\ \A g \in build_compact_graph(<< EdgeOfWay(props) >>) :
          /\ ~g.panicked
          /\ props.car_backward # 0 =>
               /\ Len(g.segments) = 2
               /\ g.geometry_refs[2] = << g.geometry_refs[1][2] - 1,
                                          g.geometry_refs[1][1] - 1 >>

\* a residential street normalized: open both ways at the same level
C27_Witness ==
  /\ UpdatedThenNormalized
  /\ props_log.exact
  /\ props_log.applied = << << "highway", "residential" >> >>
  /\ props.car_forward = CAR_RESIDENTIAL
  /\ props.car_backward = CAR_RESIDENTIAL

(* ---------------- claims: find_nodes and match_waypoint ---------------- *)

\* a query was made on a graph from_row_data built
Queried == osm_graph # None /\ ~osm_graph[1].panicked /\ matched # None

\* the cells of the index level node id has a geometry point in
NodeCells(g, id) ==
  { to_s2_parent(p) : p \in Range(CompactSpatialGraph_geometry(g, id).out) }

\* how many entries of seq satisfy Test
CountIf(seq, Test(_)) == Cardinality({ i \in 1 .. Len(seq) : Test(seq[i]) })

\* C21: find_nodes(bbox) returns every node that has a geometry point in a
\* cell of the cover of bbox, on every graph from_row_data built; a node with
\* points in several cells of the cover is returned once for each of them.
C21_FindNodesMissesNone ==
  Queried =>
    LET g == osm_graph[1]
        cover == Range(s2_cover(matched.bbox))
    IN \A id \in 0 .. Len(g.geometry_refs) - 1 :
         /\ NodeCells(g, id) \cap cover # {} => id \in Range(matched.elements_nearby)
         /\ CountIf(matched.elements_nearby, LAMBDA n : n = id)
              = Cardinality(NodeCells(g, id) \cap cover)

\* a box over two cells: node 0 has points in both and is returned twice,
\* node 1 has points in one, node 2 has no geometry and is not returned
C21_Witness ==
  /\ Queried
  /\ matched.call = "find_nodes"
  /\ Len(s2_cover(matched.bbox)) >= 2
  /\ Len(osm_graph[1].geometry_refs) = 3
  /\ CountIf(matched.elements_nearby, LAMBDA n : n = 0) = 2
  /\ CountIf(matched.elements_nearby, LAMBDA n : n = 1) = 1
  /\ CountIf(matched.elements_nearby, LAMBDA n : n = 2) = 0

\* match_waypoint was called
Matched == Queried /\ matched.call = "match_waypoint"

\* the elements find_nodes returned that snap, in the order find_nodes gave
Candidates ==
  SnapAll(osm_graph[1], matched.elements_nearby, matched.waypoint[1], 1)

\* C22: match_waypoint returns at most 4 entries, in ascending order of the
\* distance, each closer than 100 m; they are candidates find_nodes returned,
\* and every candidate closer than a returned entry is returned as well.
C22_NearestFour ==
  Matched =>
    LET snapped == matched.snapped
    IN /\ Len(snapped) <= 4
       /\ \A i \in 1 .. Len(snapped) - 1 :
            snapped[i][1].distance <= snapped[i + 1][1].distance
       /\ \A i \in 1 .. Len(snapped) : snapped[i][1].distance < HundredMetres
       /\ \A e \in Range(Candidates) \cup Range(snapped) :
            CountIf(snapped, LAMBDA x : x = e) <= CountIf(Candidates, LAMBDA x : x = e)
       /\ Len(snapped) < Len(Candidates) => Len(snapped) = 4
       /\ \A i \in 1 .. Len(snapped) : \A d \in 0 .. snapped[i][1].distance - 1 :
            CountIf(snapped, LAMBDA x : x[1].distance = d)
              = CountIf(Candidates, LAMBDA x : x[1].distance = d)

\* five candidates, four on the waypoint and one 50 m away that is left out
C22_Witness ==
  /\ Matched
  /\ Len(Candidates) = 5
  /\ Len(matched.snapped) = 4
  /\ matched.snapped[4][1].distance = 0
  /\ CountIf(Candidates, LAMBDA x : x[1].distance = 1) = 1

\* C30 as claimed: the entries match_waypoint returns have pairwise distinct
\* node ids, also when find_nodes returned a node several times.
C30_DistinctNodeIds ==
  Matched =>
    \A i, j \in 1 .. Len(matched.snapped) :
      i # j => matched.snapped[i][2] # matched.snapped[j][2]

\* C30: a node is among the entries match_waypoint returns at most as often
\* as find_nodes returned it, so the entries have pairwise distinct node ids
\* when find_nodes returned every node once; entries of the same node are
\* the same snap.
C30_RepeatsOnlyWhatFindNodesRepeats ==
  Matched =>
    /\ \A id \in 0 .. Len(osm_graph[1].geometry_refs) - 1 :
         CountIf(matched.snapped, LAMBDA x : x[2] = id)
           <= CountIf(matched.elements_nearby, LAMBDA n : n = id)
    /\ \A i, j \in 1 .. Len(matched.snapped) :
         matched.snapped[i][2] = matched.snapped[j][2]
           => matched.snapped[i][1] = matched.snapped[j][1]

\* a waypoint on the border of two cells and a node with points in both:
\* find_nodes returns the node twice and match_waypoint returns it twice,
\* next to a node that is returned once
C30_Witness ==
  /\ Matched
  /\ Len(s2_cover(matched.bbox)) = 2
  /\ CountIf(matched.elements_nearby, LAMBDA n : n = 0) = 2
  /\ CountIf(matched.snapped, LAMBDA x : x[2] = 0) = 2
  /\ CountIf(matched.elements_nearby, LAMBDA n : n = 1) = 1
  /\ CountIf(matched.snapped, LAMBDA x : x[2] = 1) = 1

====
